---------------------------- MODULE Spec2Model ----------------------------
(***************************************************************************)
(* Account-security core of rest-api-template: login with failed-login     *)
(* lockout, two-factor authentication, refresh-token rotation, device       *)
(* sessions and password history, modelled over the shared relational       *)
(* store (User, Token and Device rows).  Time is counted in seconds.         *)
(* Every request handler is a process that takes one step per database      *)
(* round trip (per await), so runs with one process are the sequential      *)
(* behaviour and runs with two processes are the interleavings.             *)
(*                                                                         *)
(* The repository holds two implementations of several services.  The      *)
(* second one in a file carries the suffix 2 here; the device service of   *)
(* unnamed/part_007 carries the suffix _part007.                            *)
(***************************************************************************)
EXTENDS Integers, Sequences, FiniteSets, TLC

VARIABLES
    now,      \* the server clock, in seconds
    users,    \* User rows: user id -> record
    tokens,   \* Token rows: a set of records
    devices,  \* Device rows (unnamed/part_007): a set of records
    procs,    \* request handlers in flight: process id -> record
    hist      \* history of the run (what has been observed so far), not program state

vars == <<now, users, tokens, devices, procs, hist>>

----------------------------------------------------------------------------
(* Bounds of the model *)

MaxNow == 1800        \* the login clock stops here
MaxRequests == 7      \* requests started in one run
MaxSeconds == 4       \* seconds the token clock counts one by one
MaxTokenRequests == 5

MaxRefreshSeconds == 4

MaxRefreshRequests == 2

MaxFailedLogins == 4

MaxBackupRequests == 3

MaxPasswordRequests == 6

MaxTwoFactorNow == 60

MaxTwoFactorRequests == 4

MaxSessionSeconds == 4

MaxDeviceRequests == 5
MaxForcedSeconds == 2
MaxForcedRequests == 4
MaxLockoutNow == 900
MaxLockoutRequests == 6
MaxSessionRequests == 3 \* requests started in one run of the token service

(* Program constants *)

NoDate == -1                       \* a null DateTime column
LOCKOUT_THRESHOLD == 5             \* failedAttempts >= 5
LOCKOUT_SECONDS == 15 * 60         \* 15 * 60 * 1000 ms
LoginTicks == {LOCKOUT_SECONDS \div 2, LOCKOUT_SECONDS}

UserIds == {"u1"}
ProcIds == {"p1", "p2"}
DeviceIds == {"d1", "d2", "d3", "d4"}
Passwords == {"pw0", "pw1", "pw2", "pw3", "pw4", "pw5"}

WeakPasswords == {"short"}

BackupCodes == <<"c1", "c2">>

CodeInputs == {"c1", "c2", "c9"}

----------------------------------------------------------------------------
(* utils/encryption: bcrypt.  A hash is not the password; a password       *)
(* matches a hash exactly when the hash was made from it.                  *)

encryptPassword(pw) == <<"bcrypt", pw>>

isPasswordMatch(pw, hash) == hash = encryptPassword(pw)

----------------------------------------------------------------------------
(* Rows and processes.  The columns lastLoginAt of User and lastUsed of      *)
(* Device are written but never read by the code modelled; they are not    *)
(* kept, and the steps that write only them change no row.                 *)

(* twoFactorSecret String?: null *)
NoSecret == "null"

NewUser(pw) ==
    [ password |-> encryptPassword(pw),
      failedLoginAttempts |-> 0,
      lockoutUntil |-> NoDate,
      twoFactorEnabled |-> FALSE,
      isEmailVerified |-> TRUE,
      isActive |-> TRUE,
      isLocked |-> FALSE,
      twoFactorBackupCodes |-> <<>>,
      passwordHistory |-> <<>>,
      twoFactorSecret |-> NoSecret,
      twoFactorVerified |-> FALSE,
      forcePasswordChange |-> FALSE, passwordChangedAt |-> NoDate ]

Idle ==
    [ pc |-> "idle", op |-> "none", uid |-> "u1", password |-> "pw0",
      user |-> NewUser("pw0"), res |-> "none", at |-> NoDate,
      deviceId |-> "d1", found |-> FALSE, refreshToken |-> <<>>,
      token |-> <<>>, oldest |-> <<>>, replay |-> FALSE, before |-> {},
      code |-> "none", codes |-> <<>>, history |-> <<>>, recent |-> <<>>,
      secret |-> NoSecret, totp |-> "none", totpCode |-> <<>>, revoked |-> FALSE,
      rows |-> {} ]

(* What has happened so far, kept beside the store to state the properties: *)
(* requests started, consecutive recorded login failures and the last of    *)
(* them, refresh tokens stored, exchanged, and exchanged more than once,    *)
(* the account's passwords, the latest first, whether a password check of  *)
(* the account has passed, and the secret the enabling code was checked     *)
(* against.                                                                 *)
NoHistory(budget) ==
    [ requests |-> 0, budget |-> budget, consec |-> 0,
      last |-> [failNo |-> 0, lockoutUntil |-> NoDate, at |-> NoDate],
      admitted |-> {}, created |-> 0, refreshed |-> {}, twice |-> {}, passwords |-> <<"pw0">>,
      revoked |-> {}, passed |-> FALSE, enabledWith |-> NoSecret ]

Live(S) == {p \in S : procs[p].pc # "absent"}

Range(f) == {f[i] : i \in DOMAIN f}

CanStart == hist.requests < hist.budget

(* The clock advances between any two steps. *)
Tick(d, limit) ==
    /\ now + d <= limit
    /\ now' = now + d
    /\ UNCHANGED <<users, tokens, devices, procs, hist>>

(* A finished request leaves; its process takes the next request. *)
Return(p) ==
    /\ procs[p].pc = "done"
    /\ procs' = [procs EXCEPT ![p] = Idle]
    /\ UNCHANGED <<now, users, tokens, devices, hist>>

----------------------------------------------------------------------------
(* services/auth.service.ts, first implementation: login with lockout       *)

(* `user?.lockoutUntil && user.lockoutUntil > new Date()` *)
isLockedOut(user, t) == user.lockoutUntil # NoDate /\ user.lockoutUntil > t

lockoutForFifthOnly(failedAttempts, t) ==
    IF failedAttempts = LOCKOUT_THRESHOLD THEN t + LOCKOUT_SECONDS ELSE NoDate

lockoutForMoreThanFive(failedAttempts, t) ==
    IF failedAttempts > LOCKOUT_THRESHOLD THEN t + LOCKOUT_SECONDS ELSE NoDate

(* `if (failedAttempts >= 5) lockoutUntil = new Date(Date.now() + 15 min)` *)
lockoutFor(failedAttempts, t) ==
    IF failedAttempts >= LOCKOUT_THRESHOLD THEN t + LOCKOUT_SECONDS ELSE NoDate

(* What the history keeps of a credential check that passed / failed. *)
NoteSuccess == [hist EXCEPT !.consec = 0, !.passed = TRUE]

NoteFailure(lockoutUntil, t) ==
    [hist EXCEPT !.consec = @ + 1,
                 !.last = [failNo |-> hist.consec + 1, lockoutUntil |-> lockoutUntil, at |-> t]]

(* getUserByEmail, the lockout check and the credential check.  The values  *)
(* of a failed attempt are computed here, before the awaited update.        *)
loginUserWithEmailAndPassword(p, uid, pw) ==
    /\ procs[p].pc = "idle"
    /\ CanStart
    /\ LET user == users[uid]
           me == [procs[p] EXCEPT !.op = "login", !.uid = uid, !.password = pw,
                                  !.user = user, !.at = now]
       IN  IF isLockedOut(user, now)
           THEN /\ procs' = [procs EXCEPT ![p] = [me EXCEPT !.pc = "done", !.res = "AccountLocked"]]
                /\ hist' = [hist EXCEPT !.requests = @ + 1]
           ELSE IF ~isPasswordMatch(pw, user.password)
           THEN /\ procs' = [procs EXCEPT ![p] = [me EXCEPT !.pc = "login_failed"]]
                /\ hist' = [hist EXCEPT !.requests = @ + 1]
           ELSE IF user.failedLoginAttempts > 0
           THEN /\ procs' = [procs EXCEPT ![p] = [me EXCEPT !.pc = "login_reset"]]
                /\ hist' = [hist EXCEPT !.requests = @ + 1]
           ELSE IF user.twoFactorEnabled
           THEN /\ procs' = [procs EXCEPT ![p] = [me EXCEPT !.pc = "done", !.res = "TwoFactorRequired"]]
                /\ hist' = [NoteSuccess EXCEPT !.requests = @ + 1]
           ELSE /\ procs' = [procs EXCEPT ![p] = [me EXCEPT !.pc = "login_last"]]
                /\ hist' = [NoteSuccess EXCEPT !.requests = @ + 1]
    /\ UNCHANGED <<now, users, tokens, devices>>

(* updateUserById(user.id, {failedLoginAttempts, lockoutUntil}) of a failed *)
(* attempt, then 401 Incorrect email or password.                          *)
loginRecordFailure(p) ==
    /\ procs[p].pc = "login_failed" /\ procs[p].op = "login"
    /\ LET me == procs[p]
           failedAttempts == me.user.failedLoginAttempts + 1
           lockoutUntil == lockoutFor(failedAttempts, me.at)
       IN  /\ users' = [users EXCEPT ![me.uid].failedLoginAttempts = failedAttempts,
                                     ![me.uid].lockoutUntil = lockoutUntil]
           /\ procs' = [procs EXCEPT ![p].pc = "done", ![p].res = "InvalidCredentials"]
           /\ hist' = NoteFailure(lockoutUntil, me.at)
    /\ UNCHANGED <<now, tokens, devices>>

(* updateUserById(user.id, {failedLoginAttempts: 0, lockoutUntil: null}),   *)
(* then the two-factor branch.                                             *)
loginReset(p) ==
    /\ procs[p].pc = "login_reset" /\ procs[p].op = "login"
    /\ LET me == procs[p]
       IN  /\ users' = [users EXCEPT ![me.uid].failedLoginAttempts = 0,
                                     ![me.uid].lockoutUntil = NoDate]
           /\ procs' = IF me.user.twoFactorEnabled
                       THEN [procs EXCEPT ![p].pc = "done", ![p].res = "TwoFactorRequired"]
                       ELSE [procs EXCEPT ![p].pc = "login_last"]
           /\ hist' = NoteSuccess
    /\ UNCHANGED <<now, tokens, devices>>

(* updateUserById(user.id, {lastLoginAt: new Date()}); the user is returned. *)
loginLast(p) ==
    /\ procs[p].pc = "login_last" /\ procs[p].op = "login"
    /\ procs' = [procs EXCEPT ![p].pc = "done", ![p].res = "User"]
    /\ UNCHANGED <<now, users, tokens, devices, hist>>

----------------------------------------------------------------------------
(* services/token.service.ts: generateToken.  A token is the signed         *)
(* payload {sub, iat, exp, type}; exp follows from iat and type, so two     *)
(* tokens of one user and type made in the same second are the same string. *)

generateToken(uid, t, type) == <<uid, type, t>>

----------------------------------------------------------------------------
(* unnamed/part_007: the device service that keeps Device rows              *)

DevicesOf(uid) == {d \in devices : d.userId = uid}

(* hasReachedDeviceLimit(userId, limit): prisma.device.count >= limit *)
hasReachedDeviceLimit(uid, limit) == Cardinality(DevicesOf(uid)) >= limit

(* getDeviceById(deviceInfo.deviceId, userId) *)
createDeviceSession_part007(p) ==
    /\ procs[p].pc = "device_find"
    /\ procs' = [procs EXCEPT ![p].pc = "device_save",
                   ![p].found = \E d \in DevicesOf(procs[p].uid) : d.deviceId = procs[p].deviceId]
    /\ UNCHANGED <<now, users, tokens, devices, hist>>

(* prisma.device.update of the row found, or prisma.device.create; deviceId *)
(* is unique over all Device rows, and an update of a missing row throws.   *)
createDeviceSessionSave(p) ==
    /\ procs[p].pc = "device_save"
    /\ LET me == procs[p]
           row == [userId |-> me.uid, deviceId |-> me.deviceId]
           old == {d \in devices : d.deviceId = me.deviceId}
       IN  IF me.found
           THEN IF \E d \in old : d.userId = me.uid
                THEN /\ devices' = (devices \ old) \cup {row}
                     /\ procs' = [procs EXCEPT ![p].pc = "device_token"]
                ELSE /\ devices' = devices
                     /\ procs' = [procs EXCEPT ![p].pc = "done", ![p].res = "Error"]
           ELSE IF old = {}
                THEN /\ devices' = devices \cup {row}
                     /\ procs' = [procs EXCEPT ![p].pc = "device_token"]
                ELSE /\ devices' = devices
                     /\ procs' = [procs EXCEPT ![p].pc = "done", ![p].res = "Error"]
    /\ UNCHANGED <<now, users, tokens, hist>>

(* prisma.token.updateMany({where: {token: refreshToken, userId}, data:     *)
(* {deviceId, ...}}): no row is created.  The tokens are then returned.     *)
createDeviceSessionToken(p) ==
    /\ procs[p].pc = "device_token"
    /\ LET me == procs[p]
       IN  tokens' = {IF r.token = me.refreshToken /\ r.userId = me.uid
                      THEN [r EXCEPT !.deviceId = me.deviceId] ELSE r : r \in tokens}
    /\ procs' = [procs EXCEPT ![p].pc = "done", ![p].res = "Tokens"]
    /\ UNCHANGED <<now, users, devices, hist>>

----------------------------------------------------------------------------
(* services/auth.service.ts, second implementation: login                   *)

MAX_DEVICES_LOGIN == 3     \* hasReachedDeviceLimit(user.id, 3)

(* getUserByEmail, then the credential check and the account flags. *)
loginUserWithEmailAndPassword2(p, uid, pw, deviceId) ==
    /\ procs[p].pc = "idle"
    /\ CanStart
    /\ LET user == users[uid]
           me == [procs[p] EXCEPT !.op = "login2", !.uid = uid, !.password = pw,
                                  !.user = user, !.at = now, !.deviceId = deviceId]
           out(res) == [procs EXCEPT ![p] = [me EXCEPT !.pc = "done", !.res = res]]
       IN  procs' = IF ~isPasswordMatch(pw, user.password) THEN out("InvalidCredentials")
                    ELSE IF user.isLocked THEN out("AccountIsLocked")
                    ELSE IF ~user.isActive THEN out("Deactivated")
                    ELSE IF ~user.isEmailVerified THEN out("EmailNotVerified")
                    ELSE [procs EXCEPT ![p] = [me EXCEPT !.pc = "login2_limit"]]
    /\ hist' = [hist EXCEPT !.requests = @ + 1]
    /\ UNCHANGED <<now, users, tokens, devices>>

(* deviceService.hasReachedDeviceLimit(user.id, 3) *)
login2DeviceLimit(p) ==
    /\ procs[p].pc = "login2_limit"
    /\ IF hasReachedDeviceLimit(procs[p].uid, MAX_DEVICES_LOGIN)
       THEN /\ procs' = [procs EXCEPT ![p].pc = "done", ![p].res = "DeviceLimit"]
            /\ hist' = hist
       ELSE /\ procs' = [procs EXCEPT ![p].pc =
                           IF procs[p].user.failedLoginAttempts > 0
                           THEN "login2_reset" ELSE "login2_last"]
            /\ hist' = NoteSuccess
    /\ UNCHANGED <<now, users, tokens, devices>>

(* updateUserById(user.id, {failedLoginAttempts: 0, lockoutUntil: null}) *)
login2Reset(p) ==
    /\ procs[p].pc = "login2_reset"
    /\ users' = [users EXCEPT ![procs[p].uid].failedLoginAttempts = 0,
                              ![procs[p].uid].lockoutUntil = NoDate]
    /\ procs' = [procs EXCEPT ![p].pc = "login2_last"]
    /\ UNCHANGED <<now, tokens, devices, hist>>

(* updateUserById(user.id, {lastLoginAt: new Date()}), then                 *)
(* tokenService.generateAuthTokens(user, req) makes the two tokens.         *)
login2Last(p) ==
    /\ procs[p].pc = "login2_last"
    /\ procs' = [procs EXCEPT ![p].pc = "device_find",
                              ![p].refreshToken = generateToken(procs[p].uid, now, "REFRESH")]
    /\ UNCHANGED <<now, users, tokens, devices, hist>>

----------------------------------------------------------------------------
(* Logins of one account, one request at a time *)

InitLogin ==
    /\ now = 0
    /\ \E tf \in BOOLEAN :
         users = [u \in UserIds |-> [NewUser("pw0") EXCEPT !.twoFactorEnabled = tf]]
    /\ tokens = {}
    /\ devices = {}
    /\ procs = [p \in ProcIds |-> IF p = "p1" THEN Idle ELSE [Idle EXCEPT !.pc = "absent"]]
    /\ hist = NoHistory(MaxRequests)

NextLogin ==
    \/ \E d \in LoginTicks : Tick(d, MaxNow)
    \/ \E p \in ProcIds : Return(p)
    \/ \E p \in ProcIds, uid \in UserIds, pw \in {"pw0", "pw1"} :
         loginUserWithEmailAndPassword(p, uid, pw)
    \/ \E p \in ProcIds : loginRecordFailure(p)
    \/ \E p \in ProcIds : loginReset(p)
    \/ \E p \in ProcIds : loginLast(p)
    \/ \E p \in ProcIds, uid \in UserIds, pw \in {"pw0", "pw1"}, d \in DeviceIds :
         loginUserWithEmailAndPassword2(p, uid, pw, d)
    \/ \E p \in ProcIds : login2DeviceLimit(p)
    \/ \E p \in ProcIds : login2Reset(p)
    \/ \E p \in ProcIds : login2Last(p)
    \/ \E p \in ProcIds : createDeviceSession_part007(p)
    \/ \E p \in ProcIds : createDeviceSessionSave(p)
    \/ \E p \in ProcIds : createDeviceSessionToken(p)

SpecLogin == InitLogin /\ [][NextLogin]_vars

----------------------------------------------------------------------------
(* Properties of SpecLogin *)

LoginDone(p) == procs[p].pc = "done" /\ procs[p].op \in {"login", "login2"}

C2_LockedOutRejectsEveryLogin ==
    \A p \in Live(ProcIds) :
        LoginDone(p) /\ isLockedOut(procs[p].user, procs[p].at) =>
            procs[p].res = "AccountLocked"

(* C3: the login of a user with twoFactorEnabled and the correct password   *)
(* never returns tokens.                                                   *)
C3_TwoFactorLoginReturnsNoTokens ==
    \A p \in Live(ProcIds) :
        LoginDone(p) /\ procs[p].user.twoFactorEnabled
                     /\ isPasswordMatch(procs[p].password, procs[p].user.password) =>
            procs[p].res # "Tokens"

----------------------------------------------------------------------------
(* services/email.service.ts, second half: the device service that keeps    *)
(* one REFRESH Token row per device session and evicts the oldest           *)

MAX_DEVICES_PER_USER == 3
REFRESH_TTL == 30 * 24 * 60 * 60     \* expires: Date.now() + 30 days

(* where {userId, type: 'REFRESH', blacklisted: false, expires > now} *)
ActiveDevices(uid, t) ==
    {r \in tokens : r.userId = uid /\ r.type = "REFRESH" /\ ~r.blacklisted /\ r.expires > t}

(* orderBy createdAt asc, findFirst: a row no other active row precedes *)
(* removeOldestDevice ordered by createdAt descending *)
Newest(S) == {r \in S : \A q \in S : r.createdAt >= q.createdAt}

Oldest(S) == {r \in S : \A q \in S : r.createdAt <= q.createdAt}

(* data: {blacklisted: true} on the row with this id *)
(* data: {blacklisted: true} without effect *)
NoBlacklist(id) == tokens

Blacklist(id) == {IF r.token = id THEN [r EXCEPT !.blacklisted = TRUE] ELSE r : r \in tokens}


(* services/token.service.ts generateAuthTokens: the two tokens are made,   *)
(* then createDeviceSession(user.id, refreshToken, req) is awaited.         *)
generateAuthTokens(p, uid) ==
    /\ procs[p].pc = "idle"
    /\ CanStart
    /\ procs' = [procs EXCEPT ![p].pc = "device_limit", ![p].op = "issue", ![p].uid = uid,
                              ![p].refreshToken = generateToken(uid, now, "REFRESH")]
    /\ hist' = [hist EXCEPT !.requests = @ + 1]
    /\ UNCHANGED <<now, users, tokens, devices>>

(* checkDeviceLimit: activeDevices.length >= MAX_DEVICES_PER_USER *)
checkDeviceLimit(p) ==
    /\ procs[p].pc = "device_limit"
    /\ procs' = [procs EXCEPT ![p].pc =
                    IF Cardinality(ActiveDevices(procs[p].uid, now)) >= MAX_DEVICES_PER_USER
                    THEN "evict_find" ELSE "session_create",
                              ![p].before = ActiveDevices(procs[p].uid, now)]
    /\ UNCHANGED <<now, users, tokens, devices, hist>>

(* removeOldestDevice: prisma.token.findFirst of the oldest active row *)
removeOldestDevice(p) ==
    /\ procs[p].pc = "evict_find"
    /\ LET active == ActiveDevices(procs[p].uid, now)
       IN  IF active = {}
           THEN procs' = [procs EXCEPT ![p].pc = "session_create"]
           ELSE \E r \in Oldest(active) :
                  procs' = [procs EXCEPT ![p].pc = "evict_update", ![p].oldest = r.token]
    /\ UNCHANGED <<now, users, tokens, devices, hist>>

(* removeOldestDevice: prisma.token.update({where: {id}, data: {blacklisted: true}}) *)
removeOldestDeviceUpdate(p) ==
    /\ procs[p].pc = "evict_update"
    /\ IF \E r \in tokens : r.token = procs[p].oldest
       THEN /\ tokens' = Blacklist(procs[p].oldest)
            /\ procs' = [procs EXCEPT ![p].pc = "session_create"]
            /\ hist' = [hist EXCEPT !.revoked = @ \cup {procs[p].oldest}]
       ELSE /\ tokens' = tokens
            /\ procs' = [procs EXCEPT ![p].pc = "done", ![p].res = "Error"]
            /\ hist' = hist
    /\ UNCHANGED <<now, users, devices>>

(* createDeviceSession: prisma.token.create; the column token is unique.    *)
(* createdAt is the database's clock at the insertion, finer than the       *)
(* second of a JWT: the rows are stamped in the order of their insertion.   *)
(* generateAuthTokens then returns the pair (to refreshAuth, when called    *)
(* from there).                                                            *)
createDeviceSession(p) ==
    /\ procs[p].pc = "session_create"
    /\ LET me == procs[p]
           row == [token |-> me.refreshToken, type |-> "REFRESH", userId |-> me.uid,
                   expires |-> now + REFRESH_TTL, blacklisted |-> FALSE,
                   deviceId |-> <<"uuid", me.refreshToken>>, createdAt |-> hist.created]
       IN  IF \E r \in tokens : r.token = me.refreshToken
           THEN /\ tokens' = tokens
                /\ hist' = hist
                /\ procs' = [procs EXCEPT ![p].pc = "done",
                                ![p].res = IF me.op = "refresh2" THEN "Unauthorized" ELSE "Error"]
           ELSE /\ tokens' = tokens \cup {row}
                /\ hist' = [hist EXCEPT !.admitted = @ \cup {me.refreshToken},
                                         !.created = @ + 1]
                /\ procs' = IF me.op = "refresh2"
                            THEN [procs EXCEPT ![p].pc = "refresh_blacklist"]
                            ELSE [procs EXCEPT ![p].pc = "done", ![p].res = "Tokens"]
    /\ UNCHANGED <<now, users, devices>>

----------------------------------------------------------------------------
(* services/token.service.ts: verifyToken and blacklistToken; refreshAuth    *)
(* of services/auth.service.ts, both implementations                        *)

(* jwt.verify: the signature is the server's and exp has not passed *)
jwtVerify(token, t) == Len(token) = 3 /\ t < token[3] + REFRESH_TTL

(* verifyToken without the blacklisted filter *)
verifyTokenAnyRow(token, type, t) ==
    IF jwtVerify(token, t)
    THEN {r \in tokens : r.token = token /\ r.type = type /\ r.userId = token[1]}
    ELSE {}

(* prisma.token.findFirst({where: {token, type, userId: payload.sub, blacklisted: false}}) *)
verifyToken(token, type, t) ==
    IF jwtVerify(token, t)
    THEN {r \in tokens : r.token = token /\ r.type = type /\ r.userId = token[1] /\ ~r.blacklisted}
    ELSE {}

(* The refresh tokens a client can present: those of the rows ever stored. *)
Presentable == {r.token : r \in tokens} \cup hist.admitted

(* refreshAuth, second implementation: verifyToken(refreshToken, REFRESH),   *)
(* getUserById, then generateAuthTokens(user, req) makes the two tokens.    *)
refreshAuth2(p, token) ==
    /\ procs[p].pc = "idle"
    /\ CanStart
    /\ LET me == [procs[p] EXCEPT !.op = "refresh2", !.uid = token[1], !.token = token,
                                  !.replay = token \in hist.refreshed]
       IN  procs' = IF verifyToken(token, "REFRESH", now) = {}
                    THEN [procs EXCEPT ![p] = [me EXCEPT !.pc = "done", !.res = "Unauthorized"]]
                    ELSE [procs EXCEPT ![p] = [me EXCEPT !.pc = "refresh_generate"]]
    /\ hist' = [hist EXCEPT !.requests = @ + 1]
    /\ UNCHANGED <<now, users, tokens, devices>>

refreshGenerate(p) ==
    /\ procs[p].pc = "refresh_generate"
    /\ procs' = [procs EXCEPT ![p].pc = "device_limit",
                              ![p].refreshToken = generateToken(procs[p].uid, now, "REFRESH")]
    /\ UNCHANGED <<now, users, tokens, devices, hist>>

(* blacklistToken(refreshTokenDoc.id): prisma.token.update by id, which     *)
(* throws when the row is gone; then the new pair is returned.              *)
blacklistToken(p) ==
    /\ procs[p].pc = "refresh_blacklist"
    /\ IF \E r \in tokens : r.token = procs[p].token
       THEN /\ tokens' = Blacklist(procs[p].token)
            /\ procs' = [procs EXCEPT ![p].pc = "done", ![p].res = "Tokens"]
            /\ hist' = [hist EXCEPT !.refreshed = @ \cup {procs[p].token},
                                     !.twice = @ \cup (hist.refreshed \cap {procs[p].token}),
                                     !.revoked = @ \cup {procs[p].token}]
       ELSE /\ tokens' = tokens
            /\ procs' = [procs EXCEPT ![p].pc = "done", ![p].res = "Unauthorized"]
            /\ hist' = hist
    /\ UNCHANGED <<now, users, devices>>

(* refreshAuth, first implementation: verifyToken, then the row is deleted. *)
refreshAuth(p, token) ==
    /\ procs[p].pc = "idle"
    /\ CanStart
    /\ LET me == [procs[p] EXCEPT !.op = "refresh", !.uid = token[1], !.token = token,
                                  !.replay = token \in hist.refreshed]
       IN  procs' = IF verifyToken(token, "REFRESH", now) = {}
                    THEN [procs EXCEPT ![p] = [me EXCEPT !.pc = "done", !.res = "Unauthorized"]]
                    ELSE [procs EXCEPT ![p] = [me EXCEPT !.pc = "refresh_delete"]]
    /\ hist' = [hist EXCEPT !.requests = @ + 1]
    /\ UNCHANGED <<now, users, tokens, devices>>

(* prisma.token.delete({where: {id}}); generateAuthTokens({id: userId}) is  *)
(* then called without a request, so createDeviceSession throws on          *)
(* req.body and the catch answers 401.                                      *)
refreshDelete(p) ==
    /\ procs[p].pc = "refresh_delete"
    /\ tokens' = {r \in tokens : r.token # procs[p].token}
    /\ procs' = [procs EXCEPT ![p].pc = "done", ![p].res = "Unauthorized"]
    /\ UNCHANGED <<now, users, devices, hist>>

----------------------------------------------------------------------------
(* Token issuance and rotation for one user *)

TokenTicks == {1, REFRESH_TTL}

(* The clock runs second by second up to `seconds', and a session's         *)
(* lifetime may go by at any moment.                                       *)
TokenClock(d, seconds) == d = 1 => now < seconds

InitToken(P, budget) ==
    /\ now = 0
    /\ users = [u \in UserIds |-> NewUser("pw0")]
    /\ tokens = {}
    /\ devices = {}
    /\ procs = [p \in ProcIds |-> IF p \in P THEN Idle ELSE [Idle EXCEPT !.pc = "absent"]]
    /\ hist = NoHistory(budget)

AdmitSteps ==
    \/ \E p \in ProcIds : Return(p)
    \/ \E p \in ProcIds : checkDeviceLimit(p)
    \/ \E p \in ProcIds : removeOldestDevice(p)
    \/ \E p \in ProcIds : removeOldestDeviceUpdate(p)
    \/ \E p \in ProcIds : createDeviceSession(p)

Admit ==
    \/ \E p \in ProcIds, uid \in UserIds : generateAuthTokens(p, uid)
    \/ AdmitSteps

NextDevice ==
    \/ \E d \in TokenTicks : TokenClock(d, MaxSeconds) /\ Tick(d, REFRESH_TTL + MaxSeconds)
    \/ Admit

NextDeviceConc ==
    \/ Tick(1, MaxSeconds)
    \/ Admit

NextRefresh ==
    \/ \E d \in TokenTicks : TokenClock(d, MaxRefreshSeconds) /\ Tick(d, REFRESH_TTL + MaxRefreshSeconds)
    \/ AdmitSteps
    \/ \E p \in ProcIds, token \in Presentable : refreshAuth2(p, token)
    \/ \E p \in ProcIds : refreshGenerate(p)
    \/ \E p \in ProcIds : blacklistToken(p)
    \/ \E p \in ProcIds, token \in Presentable : refreshAuth(p, token)
    \/ \E p \in ProcIds : refreshDelete(p)

(* Admissions one at a time *)
SpecDevice == InitToken({"p1"}, MaxTokenRequests) /\ [][NextDevice]_vars

(* Two admissions in flight, within the lifetime of the sessions *)
SpecDeviceConc == InitToken({"p1", "p2"}, MaxTokenRequests) /\ [][NextDeviceConc]_vars

(* The session that an admission at second i, the (i+1)th of the user, has stored *)
Session(uid, i) ==
    [token |-> generateToken(uid, i, "REFRESH"), type |-> "REFRESH", userId |-> uid,
     expires |-> i + REFRESH_TTL, blacklisted |-> FALSE,
     deviceId |-> <<"uuid", generateToken(uid, i, "REFRESH")>>, createdAt |-> i]

(* The user has been admitted k times, once a second, and holds k sessions *)
InitRefresh ==
    \E k \in {MAX_DEVICES_PER_USER} :
        /\ now = k
        /\ users = [u \in UserIds |-> NewUser("pw0")]
        /\ tokens = {Session("u1", i) : i \in 0 .. k - 1}
        /\ devices = {}
        /\ procs = [p \in ProcIds |-> Idle]
        /\ hist = [NoHistory(MaxRefreshRequests) EXCEPT
                       !.admitted = {generateToken("u1", i, "REFRESH") : i \in 0 .. k - 1},
                       !.created = k]

(* Issuance and refresh with two requests in flight *)
SpecRefresh == InitRefresh /\ [][NextRefresh]_vars

----------------------------------------------------------------------------
(* Properties of token rotation and of the device cap *)

RefreshOps == {"refresh", "refresh2"}

(* C4: a refreshAuth that starts after a refreshAuth with the same refresh   *)
(* token has succeeded is answered 401 at once, whether or not the token is *)
(* still within its expiry.                                                 *)
C4_RefreshTokenSingleUse ==
    \A p \in Live(ProcIds) :
        procs[p].op \in RefreshOps /\ procs[p].replay
            => procs[p].pc = "done" /\ procs[p].res = "Unauthorized"

C4_Witness ==
    \E p \in Live(ProcIds) :
        /\ procs[p].op = "refresh2" /\ procs[p].replay
        /\ procs[p].pc = "done" /\ procs[p].res = "Unauthorized"
        /\ jwtVerify(procs[p].token, now)

(* C5: no refresh token is exchanged for a new token pair more than once,   *)
(* even by two refreshAuth requests in flight together.                     *)
C5_AtMostOneRefreshPerToken ==
    hist.twice = {}

Admitted(p) == procs[p].pc = "done" /\ procs[p].op = "issue" /\ procs[p].res = "Tokens"

NewSession(p) == {r \in tokens : r.token = procs[p].refreshToken}

Unexpired(S) == \A r \in S : r.expires > now

(* C7: an admission that found 3 active sessions leaves exactly 3: those it *)
(* found without the one created earliest, and the new one; an admission    *)
(* that found fewer leaves them all and the new one.  (Sessions that have   *)
(* run out meanwhile are left aside.)                                       *)
C7_EvictsOldestAtCap ==
    \A p \in Live(ProcIds) :
        Admitted(p) /\ Unexpired(procs[p].before \cup NewSession(p)) =>
            LET before == procs[p].before
                active == ActiveDevices(procs[p].uid, now)
            IN  /\ Cardinality(before) <= MAX_DEVICES_PER_USER
                /\ Cardinality(before) = MAX_DEVICES_PER_USER =>
                       /\ \E a \in before :
                              /\ \A r \in before \ {a} : a.createdAt < r.createdAt
                              /\ active = (before \ {a}) \cup NewSession(p)
                       /\ Cardinality(active) = MAX_DEVICES_PER_USER
                /\ Cardinality(before) < MAX_DEVICES_PER_USER =>
                       active = before \cup NewSession(p)

C7_Witness ==
    \E p \in Live(ProcIds) :
        /\ Admitted(p) /\ Unexpired(procs[p].before \cup NewSession(p))
        /\ Cardinality(procs[p].before) = MAX_DEVICES_PER_USER
        /\ \E r \in procs[p].before :
               /\ r.createdAt = 0
               /\ r \notin ActiveDevices(procs[p].uid, now)
        /\ Cardinality(ActiveDevices(procs[p].uid, now)) = MAX_DEVICES_PER_USER

(* C8: once two admissions that both found the user at the cap are done,    *)
(* the user has no more than 3 active sessions.                             *)
C8_ConcurrentAdmissionsKeepCap ==
    \A p, q \in Live(ProcIds) :
        /\ p # q /\ Admitted(p) /\ Admitted(q)
        /\ Cardinality(procs[p].before) = MAX_DEVICES_PER_USER
        /\ Cardinality(procs[q].before) = MAX_DEVICES_PER_USER
        => \A uid \in UserIds :
               Cardinality(ActiveDevices(uid, now)) <= MAX_DEVICES_PER_USER

----------------------------------------------------------------------------
(* Two failed logins of the first implementation in flight together *)

InitFailedLogins ==
    /\ now = 0
    /\ users = [u \in UserIds |-> NewUser("pw0")]
    /\ tokens = {}
    /\ devices = {}
    /\ procs = [p \in ProcIds |-> Idle]
    /\ hist = NoHistory(MaxFailedLogins)

NextFailedLogins ==
    \/ Tick(LOCKOUT_SECONDS, LOCKOUT_SECONDS)
    \/ \E p \in ProcIds : Return(p)
    \/ \E p \in ProcIds, uid \in UserIds : loginUserWithEmailAndPassword(p, uid, "pw1")
    \/ \E p \in ProcIds : loginRecordFailure(p)

SpecFailedLogins == InitFailedLogins /\ [][NextFailedLogins]_vars

(* C9: the stored failedLoginAttempts is the number of failed logins        *)
(* recorded, in every interleaving of two of them.                          *)
C9_EveryFailedLoginCounted ==
    \A u \in UserIds : users[u].failedLoginAttempts = hist.consec

----------------------------------------------------------------------------
(* Two-factor service: verifyBackupCode, in both files of the service *)

(* backupCodes.splice(backupCodes.indexOf(code), 1) *)
(* splice that removes nothing *)
spliceNone(codes, code) == codes

RECURSIVE splice(_, _)
splice(codes, code) ==
    IF codes = <<>> THEN <<>>
    ELSE IF Head(codes) = code THEN Tail(codes)
    ELSE <<Head(codes)>> \o splice(Tail(codes), code)

(* twoFactorBackupCodes.filter(c => c !== code) *)
filter(codes, code) == SelectSeq(codes, LAMBDA c : c # code)

(* findUnique, then indexOf: false without a write when the code is not there *)
verifyBackupCode(p, uid, code) ==
    /\ procs[p].pc = "idle"
    /\ CanStart
    /\ LET me == [procs[p] EXCEPT !.op = "verifyBackupCode", !.uid = uid, !.code = code,
                                  !.codes = users[uid].twoFactorBackupCodes]
       IN  procs' = IF code \in Range(me.codes)
                    THEN [procs EXCEPT ![p] = [me EXCEPT !.pc = "backup_update"]]
                    ELSE [procs EXCEPT ![p] = [me EXCEPT !.pc = "done", !.res = "false"]]
    /\ hist' = [hist EXCEPT !.requests = @ + 1]
    /\ UNCHANGED <<now, users, tokens, devices>>

(* prisma.user.update with the list read before, less the code *)
verifyBackupCodeUpdate(p) ==
    /\ procs[p].pc = "backup_update"
    /\ users' = [users EXCEPT ![procs[p].uid].twoFactorBackupCodes =
                     splice(procs[p].codes, procs[p].code)]
    /\ procs' = [procs EXCEPT ![p].pc = "done", ![p].res = "true"]
    /\ UNCHANGED <<now, tokens, devices, hist>>

verifyBackupCode_part005(p, uid, code) ==
    /\ procs[p].pc = "idle"
    /\ CanStart
    /\ LET me == [procs[p] EXCEPT !.op = "verifyBackupCode", !.uid = uid, !.code = code,
                                  !.codes = users[uid].twoFactorBackupCodes]
       IN  procs' = IF code \in Range(me.codes)
                    THEN [procs EXCEPT ![p] = [me EXCEPT !.pc = "backup_set"]]
                    ELSE [procs EXCEPT ![p] = [me EXCEPT !.pc = "done", !.res = "false"]]
    /\ hist' = [hist EXCEPT !.requests = @ + 1]
    /\ UNCHANGED <<now, users, tokens, devices>>

verifyBackupCodeSet(p) ==
    /\ procs[p].pc = "backup_set"
    /\ users' = [users EXCEPT ![procs[p].uid].twoFactorBackupCodes =
                     filter(procs[p].codes, procs[p].code)]
    /\ procs' = [procs EXCEPT ![p].pc = "done", ![p].res = "true"]
    /\ UNCHANGED <<now, tokens, devices, hist>>

(* The account after setupTwoFactor and enableTwoFactor *)
InitBackup ==
    /\ now = 0
    /\ users = [u \in UserIds |-> [NewUser("pw0") EXCEPT !.twoFactorEnabled = TRUE,
                                                         !.twoFactorVerified = TRUE,
                                                         !.twoFactorSecret = "s1",
                                                         !.twoFactorBackupCodes = BackupCodes]]
    /\ tokens = {}
    /\ devices = {}
    /\ procs = [p \in ProcIds |-> Idle]
    /\ hist = NoHistory(MaxBackupRequests)

NextBackup ==
    \/ \E p \in ProcIds : Return(p)
    \/ \E p \in ProcIds, uid \in UserIds, code \in CodeInputs : verifyBackupCode(p, uid, code)
    \/ \E p \in ProcIds : verifyBackupCodeUpdate(p)
    \/ \E p \in ProcIds, uid \in UserIds, code \in CodeInputs : verifyBackupCode_part005(p, uid, code)
    \/ \E p \in ProcIds : verifyBackupCodeSet(p)

SpecBackup == InitBackup /\ [][NextBackup]_vars

(* C6: of two verifications of the same backup code for the same user that  *)
(* are answered together, not both are answered true, and the code is not   *)
(* in the stored list once one of them is.                                  *)
C6_BackupCodeRedeemedOnce ==
    \A p, q \in Live(ProcIds) :
        /\ p # q
        /\ procs[p].pc = "done" /\ procs[p].op = "verifyBackupCode"
        /\ procs[q].pc = "done" /\ procs[q].op = "verifyBackupCode"
        /\ procs[p].uid = procs[q].uid /\ procs[p].code = procs[q].code
        /\ procs[p].res = "true"
        => /\ procs[q].res = "false"
           /\ procs[p].code \notin Range(users[procs[p].uid].twoFactorBackupCodes)

----------------------------------------------------------------------------
(* Password service: validateNewPassword, addPasswordToHistory, updatePassword *)

PASSWORD_HISTORY_LIMIT == 5

(* checkPasswordStrength: length and the four character classes *)
checkPasswordStrength(pw) == pw \notin WeakPasswords

(* bcrypt.compare of the candidate with each stored hash *)
isPasswordInHistory(history, newPassword) ==
    \E i \in DOMAIN history : isPasswordMatch(newPassword, history[i])

(* list.slice(0, n) *)
slice(list, n) == SubSeq(list, 1, IF Len(list) < n THEN Len(list) ELSE n)

(* updatePassword: validateNewPassword reads passwordHistory; 400 when the  *)
(* password is weak or matches a hash of the list.                          *)
updatePassword(p, uid, newPassword) ==
    /\ procs[p].pc = "idle"
    /\ CanStart
    /\ LET me == [procs[p] EXCEPT !.op = "updatePassword", !.uid = uid,
                                  !.password = newPassword,
                                  !.recent = slice(hist.passwords, PASSWORD_HISTORY_LIMIT)]
           isValid == /\ checkPasswordStrength(newPassword)
                      /\ ~isPasswordInHistory(users[uid].passwordHistory, newPassword)
       IN  procs' = IF isValid
                    THEN [procs EXCEPT ![p] = [me EXCEPT !.pc = "history_find"]]
                    ELSE [procs EXCEPT ![p] = [me EXCEPT !.pc = "done", !.res = "BadRequest"]]
    /\ hist' = [hist EXCEPT !.requests = @ + 1]
    /\ UNCHANGED <<now, users, tokens, devices>>

(* addPasswordToHistory: findUnique of passwordHistory *)
addPasswordToHistory(p) ==
    /\ procs[p].pc = "history_find"
    /\ procs' = [procs EXCEPT ![p].pc = "history_update",
                              ![p].history = users[procs[p].uid].passwordHistory]
    /\ UNCHANGED <<now, users, tokens, devices, hist>>

(* [hashedPassword, ...currentHistory].slice(0, PASSWORD_HISTORY_LIMIT) *)
addPasswordToHistoryUpdate(p) ==
    /\ procs[p].pc = "history_update"
    /\ users' = [users EXCEPT ![procs[p].uid].passwordHistory =
                     slice(<<encryptPassword(procs[p].password)>> \o procs[p].history,
                           PASSWORD_HISTORY_LIMIT)]
    /\ procs' = [procs EXCEPT ![p].pc = "password_update"]
    /\ UNCHANGED <<now, tokens, devices, hist>>

(* prisma.user.update({data: {password: hashedPassword}}) *)
updatePasswordUpdate(p) ==
    /\ procs[p].pc = "password_update"
    /\ users' = [users EXCEPT ![procs[p].uid].password = encryptPassword(procs[p].password),
                              ![procs[p].uid].passwordChangedAt = now]
    /\ procs' = [procs EXCEPT ![p].pc = "done", ![p].res = "Updated"]
    /\ hist' = [hist EXCEPT !.passwords = <<procs[p].password>> \o @]
    /\ UNCHANGED <<now, tokens, devices>>

(* The account as createUser leaves it *)
InitPassword ==
    /\ now = 0
    /\ users = [u \in UserIds |-> NewUser("pw0")]
    /\ tokens = {}
    /\ devices = {}
    /\ procs = [p \in ProcIds |-> IF p = "p1" THEN Idle ELSE [Idle EXCEPT !.pc = "absent"]]
    /\ hist = NoHistory(MaxPasswordRequests)

NextPassword ==
    \/ \E p \in ProcIds : Return(p)
    \/ \E p \in ProcIds, uid \in UserIds, pw \in Passwords \cup WeakPasswords :
         updatePassword(p, uid, pw)
    \/ \E p \in ProcIds : addPasswordToHistory(p)
    \/ \E p \in ProcIds : addPasswordToHistoryUpdate(p)
    \/ \E p \in ProcIds : updatePasswordUpdate(p)

SpecPassword == InitPassword /\ [][NextPassword]_vars

(* C10: updatePassword with a password that passes the strength check is    *)
(* rejected exactly when it is one of the account's last 5 passwords, the   *)
(* current one included, from the first change on.                          *)
C10_LastFivePasswordsRejected ==
    \A p \in Live(ProcIds) :
        /\ procs[p].pc = "done" /\ procs[p].op = "updatePassword"
        /\ checkPasswordStrength(procs[p].password)
        => (procs[p].res = "BadRequest" <=> procs[p].password \in Range(procs[p].recent))

----------------------------------------------------------------------------
(* Two-factor service: verifyToken (TOTP), setupTwoFactor, enableTwoFactor, *)
(* disableTwoFactor and verifyTwoFactor; part_004 and part_005 are alike    *)

TOTP_PERIOD == 30

TOTP_WINDOW == 2

Secrets == {"s1", "s2"}

CodeLists == {BackupCodes, <<"c3">>}

(* The code that secret gives for a 30-second step (two steps are taken to  *)
(* give different codes)                                                    *)
totp(secret, step) == <<secret, step>>

(* speakeasy.totp.verify with window: the steps counter - window to         *)
(* counter + window are tried, counter = floor(seconds / 30)                *)
verifyTotp(secret, token, t) ==
    \E d \in -TOTP_WINDOW .. TOTP_WINDOW : token = totp(secret, (t \div TOTP_PERIOD) + d)

(* A submitted string is six digits, read as a TOTP code, or eight          *)
(* characters, read as a backup code                                        *)
NoToken == [totp |-> <<>>, code |-> "none"]

(* What a client may submit: a code of a step near the present one, or a    *)
(* backup code                                                              *)
TokenInputs ==
    {[totp |-> totp(secret, (now \div TOTP_PERIOD) + d), code |-> "none"] :
         secret \in Secrets, d \in -3 .. 3}
    \cup {[totp |-> <<>>, code |-> c] : c \in CodeInputs \cup {"c3"}}

(* user.twoFactorEnabled with every row read as not enabled *)
neverEnabled(user) == FALSE

alreadyEnabled(user) == user.twoFactorEnabled

Check(p, op, uid, token) ==
    [procs[p] EXCEPT !.op = op, !.uid = uid, !.code = token.code, !.totpCode = token.totp,
                     !.user = users[uid], !.at = now]

setupTwoFactor(p, uid, secret, codes) ==
    /\ procs[p].pc = "idle"
    /\ CanStart
    /\ LET me == [Check(p, "setupTwoFactor", uid, NoToken) EXCEPT !.secret = secret, !.codes = codes]
       IN  procs' = IF alreadyEnabled(me.user)
                    THEN [procs EXCEPT ![p] = [me EXCEPT !.pc = "done", !.res = "BadRequest"]]
                    ELSE [procs EXCEPT ![p] = [me EXCEPT !.pc = "setup_update"]]
    /\ hist' = [hist EXCEPT !.requests = @ + 1]
    /\ UNCHANGED <<now, users, tokens, devices>>

setupTwoFactorUpdate(p) ==
    /\ procs[p].pc = "setup_update"
    /\ users' = [users EXCEPT ![procs[p].uid].twoFactorSecret = procs[p].secret,
                              ![procs[p].uid].twoFactorBackupCodes = procs[p].codes]
    /\ procs' = [procs EXCEPT ![p].pc = "done", ![p].res = "ok"]
    /\ UNCHANGED <<now, tokens, devices, hist>>

enableTwoFactor(p, uid, token) ==
    /\ procs[p].pc = "idle"
    /\ CanStart
    /\ LET me == Check(p, "enableTwoFactor", uid, token)
           isValid == verifyTotp(me.user.twoFactorSecret, token.totp, now)
       IN  procs' =
             IF alreadyEnabled(me.user) \/ me.user.twoFactorSecret = NoSecret
             THEN [procs EXCEPT ![p] = [me EXCEPT !.pc = "done", !.res = "BadRequest"]]
             ELSE IF ~isValid
             THEN [procs EXCEPT ![p] = [me EXCEPT !.pc = "done", !.res = "BadRequest",
                                                  !.totp = "false"]]
             ELSE [procs EXCEPT ![p] = [me EXCEPT !.pc = "enable_update", !.totp = "true"]]
    /\ hist' = [hist EXCEPT !.requests = @ + 1]
    /\ UNCHANGED <<now, users, tokens, devices>>

enableTwoFactorUpdate(p) ==
    /\ procs[p].pc = "enable_update"
    /\ users' = [users EXCEPT ![procs[p].uid].twoFactorEnabled = TRUE,
                              ![procs[p].uid].twoFactorVerified = TRUE]
    /\ procs' = [procs EXCEPT ![p].pc = "done", ![p].res = "ok"]
    /\ hist' = [hist EXCEPT !.enabledWith = procs[p].user.twoFactorSecret]
    /\ UNCHANGED <<now, tokens, devices>>

disableTwoFactor(p, uid, token) ==
    /\ procs[p].pc = "idle"
    /\ CanStart
    /\ LET me == Check(p, "disableTwoFactor", uid, token)
           isValid == verifyTotp(me.user.twoFactorSecret, token.totp, now)
       IN  procs' =
             IF ~me.user.twoFactorEnabled
             THEN [procs EXCEPT ![p] = [me EXCEPT !.pc = "done", !.res = "BadRequest"]]
             ELSE IF ~isValid
             THEN [procs EXCEPT ![p] = [me EXCEPT !.pc = "done", !.res = "BadRequest",
                                                  !.totp = "false"]]
             ELSE [procs EXCEPT ![p] = [me EXCEPT !.pc = "disable_update", !.totp = "true"]]
    /\ hist' = [hist EXCEPT !.requests = @ + 1]
    /\ UNCHANGED <<now, users, tokens, devices>>

disableTwoFactorUpdate(p) ==
    /\ procs[p].pc = "disable_update"
    /\ users' = [users EXCEPT ![procs[p].uid].twoFactorEnabled = FALSE,
                              ![procs[p].uid].twoFactorSecret = NoSecret,
                              ![procs[p].uid].twoFactorBackupCodes = <<>>,
                              ![procs[p].uid].twoFactorVerified = FALSE]
    /\ procs' = [procs EXCEPT ![p].pc = "done", ![p].res = "ok"]
    /\ UNCHANGED <<now, tokens, devices, hist>>

(* verifyTwoFactor: the TOTP first, then the token as a backup code *)
verifyTwoFactor(p, uid, token) ==
    /\ procs[p].pc = "idle"
    /\ CanStart
    /\ LET me == Check(p, "verifyTwoFactor", uid, token)
           isValidToken == verifyTotp(me.user.twoFactorSecret, token.totp, now)
       IN  procs' =
             IF ~me.user.twoFactorEnabled \/ me.user.twoFactorSecret = NoSecret
             THEN [procs EXCEPT ![p] = [me EXCEPT !.pc = "done", !.res = "false"]]
             ELSE IF isValidToken
             THEN [procs EXCEPT ![p] = [me EXCEPT !.pc = "done", !.res = "true", !.totp = "true"]]
             ELSE [procs EXCEPT ![p] = [me EXCEPT !.pc = "backup_find", !.totp = "false"]]
    /\ hist' = [hist EXCEPT !.requests = @ + 1]
    /\ UNCHANGED <<now, users, tokens, devices>>

(* verifyBackupCode called from verifyTwoFactor: its findUnique *)
verifyTwoFactorBackup(p) ==
    /\ procs[p].pc = "backup_find"
    /\ LET codes == users[procs[p].uid].twoFactorBackupCodes
       IN  procs' = IF procs[p].code \in Range(codes)
                    THEN [procs EXCEPT ![p].pc = "backup_update", ![p].codes = codes]
                    ELSE [procs EXCEPT ![p].pc = "done", ![p].res = "false", ![p].codes = codes]
    /\ UNCHANGED <<now, users, tokens, devices, hist>>

regenerateBackupCodes(p, uid, token, codes) ==
    /\ procs[p].pc = "idle"
    /\ CanStart
    /\ LET me == [Check(p, "regenerateBackupCodes", uid, token) EXCEPT !.codes = codes]
           isValid == verifyTotp(me.user.twoFactorSecret, token.totp, now)
       IN  procs' =
             IF ~me.user.twoFactorEnabled
             THEN [procs EXCEPT ![p] = [me EXCEPT !.pc = "done", !.res = "BadRequest"]]
             ELSE IF ~isValid
             THEN [procs EXCEPT ![p] = [me EXCEPT !.pc = "done", !.res = "BadRequest",
                                                  !.totp = "false"]]
             ELSE [procs EXCEPT ![p] = [me EXCEPT !.pc = "regenerate_update", !.totp = "true"]]
    /\ hist' = [hist EXCEPT !.requests = @ + 1]
    /\ UNCHANGED <<now, users, tokens, devices>>

regenerateBackupCodesUpdate(p) ==
    /\ procs[p].pc = "regenerate_update"
    /\ users' = [users EXCEPT ![procs[p].uid].twoFactorBackupCodes = procs[p].codes]
    /\ procs' = [procs EXCEPT ![p].pc = "done", ![p].res = "ok"]
    /\ UNCHANGED <<now, tokens, devices, hist>>

InitTwoFactor ==
    /\ now = 0
    /\ users = [u \in UserIds |-> NewUser("pw0")]
    /\ tokens = {}
    /\ devices = {}
    /\ procs = [p \in ProcIds |-> IF p = "p1" THEN Idle ELSE [Idle EXCEPT !.pc = "absent"]]
    /\ hist = NoHistory(MaxTwoFactorRequests)

NextTwoFactor ==
    \/ Tick(TOTP_PERIOD \div 2, MaxTwoFactorNow)
    \/ \E p \in ProcIds : Return(p)
    \/ \E p \in ProcIds, uid \in UserIds, secret \in Secrets, codes \in CodeLists :
         setupTwoFactor(p, uid, secret, codes)
    \/ \E p \in ProcIds : setupTwoFactorUpdate(p)
    \/ \E p \in ProcIds, uid \in UserIds, token \in TokenInputs : enableTwoFactor(p, uid, token)
    \/ \E p \in ProcIds : enableTwoFactorUpdate(p)
    \/ \E p \in ProcIds, uid \in UserIds, token \in TokenInputs : disableTwoFactor(p, uid, token)
    \/ \E p \in ProcIds : disableTwoFactorUpdate(p)
    \/ \E p \in ProcIds, uid \in UserIds, token \in TokenInputs : verifyTwoFactor(p, uid, token)
    \/ \E p \in ProcIds : verifyTwoFactorBackup(p)
    \/ \E p \in ProcIds : verifyBackupCodeUpdate(p)
    \/ \E p \in ProcIds, uid \in UserIds, token \in TokenInputs, codes \in CodeLists :
         regenerateBackupCodes(p, uid, token, codes)
    \/ \E p \in ProcIds : regenerateBackupCodesUpdate(p)

SpecTwoFactor == InitTwoFactor /\ [][NextTwoFactor]_vars

(* C11: a submitted TOTP code is accepted exactly when it is the code of    *)
(* the current 30-second step or of the step just before or just after it. *)
C11_TotpWithinOneStep ==
    \A p \in Live(ProcIds) :
        procs[p].totp # "none" =>
            (procs[p].totp = "true" <=>
                 \E d \in -1 .. 1 :
                     procs[p].totpCode =
                         totp(procs[p].user.twoFactorSecret, (procs[p].at \div TOTP_PERIOD) + d))

----------------------------------------------------------------------------
(* Sessions kept as Token rows: issue, verify, logout (both                 *)
(* implementations), revocation and the expiry sweep                        *)

SessionUsers == {"u1", "u2"}

(* A token whose signature is not the server's *)
Forged(token) == Append(token, "forged")

(* verifyToken as its caller sees it: the error thrown, or the row *)
verifyTokenOutcome(token, type, t) ==
    IF Len(token) # 3 THEN "JsonWebTokenError"
    ELSE IF ~jwtVerify(token, t) THEN "TokenExpiredError"
    ELSE IF verifyToken(token, type, t) = {} THEN "Error: Token not found"
    ELSE "TokenDoc"

TokenInputs2 == Presentable \cup {Forged(token) : token \in Presentable}
                    \cup {generateToken("u2", 0, "REFRESH")}

Call(p, op, uid, token) ==
    [procs[p] EXCEPT !.op = op, !.uid = uid, !.token = token, !.at = now,
                     !.revoked = token \in hist.revoked]

verifyTokenCall(p, token) ==
    /\ procs[p].pc = "idle"
    /\ CanStart
    /\ procs' = [procs EXCEPT ![p] = [Call(p, "verifyToken", "u1", token) EXCEPT
                     !.pc = "done", !.res = verifyTokenOutcome(token, "REFRESH", now)]]
    /\ hist' = [hist EXCEPT !.requests = @ + 1]
    /\ UNCHANGED <<now, users, tokens, devices>>

(* logout, second implementation: verifyToken, then blacklistToken *)
logout2(p, token) ==
    /\ procs[p].pc = "idle"
    /\ CanStart
    /\ LET me == Call(p, "logout2", "u1", token)
       IN  procs' = IF verifyTokenOutcome(token, "REFRESH", now) = "TokenDoc"
                    THEN [procs EXCEPT ![p] = [me EXCEPT !.pc = "logout_blacklist"]]
                    ELSE [procs EXCEPT ![p] = [me EXCEPT !.pc = "done", !.res = "Error"]]
    /\ hist' = [hist EXCEPT !.requests = @ + 1]
    /\ UNCHANGED <<now, users, tokens, devices>>

logoutBlacklist(p) ==
    /\ procs[p].pc = "logout_blacklist"
    /\ IF \E r \in tokens : r.token = procs[p].token
       THEN /\ tokens' = Blacklist(procs[p].token)
            /\ procs' = [procs EXCEPT ![p].pc = "done", ![p].res = "ok"]
            /\ hist' = [hist EXCEPT !.revoked = @ \cup {procs[p].token}]
       ELSE /\ tokens' = tokens
            /\ procs' = [procs EXCEPT ![p].pc = "done", ![p].res = "Error"]
            /\ hist' = hist
    /\ UNCHANGED <<now, users, devices>>

(* logout, first implementation: findFirst of the row not blacklisted, then *)
(* prisma.token.delete                                                     *)
logout(p, token) ==
    /\ procs[p].pc = "idle"
    /\ CanStart
    /\ LET me == Call(p, "logout", "u1", token)
       IN  procs' = IF \E r \in tokens : r.token = token /\ r.type = "REFRESH" /\ ~r.blacklisted
                    THEN [procs EXCEPT ![p] = [me EXCEPT !.pc = "logout_delete"]]
                    ELSE [procs EXCEPT ![p] = [me EXCEPT !.pc = "done", !.res = "NotFound"]]
    /\ hist' = [hist EXCEPT !.requests = @ + 1]
    /\ UNCHANGED <<now, users, tokens, devices>>

logoutDelete(p) ==
    /\ procs[p].pc = "logout_delete"
    /\ tokens' = {r \in tokens : r.token # procs[p].token}
    /\ procs' = [procs EXCEPT ![p].pc = "done",
                              ![p].res = IF \E r \in tokens : r.token = procs[p].token
                                         THEN "ok" ELSE "Error"]
    /\ UNCHANGED <<now, users, devices, hist>>

(* removeExpiredTokens: deleteMany({where: {expires: {lt: new Date()}}}) *)
removeExpiredTokens(p) ==
    /\ procs[p].pc = "idle"
    /\ CanStart
    /\ tokens' = {r \in tokens : ~(r.expires < now)}
    /\ procs' = [procs EXCEPT ![p] = [procs[p] EXCEPT !.op = "removeExpiredTokens",
                                                      !.pc = "done", !.res = "ok", !.at = now]]
    /\ hist' = [hist EXCEPT !.requests = @ + 1]
    /\ UNCHANGED <<now, users, devices>>

(* revokeAllUserTokens: updateMany({where: {userId}, data: {blacklisted: true}}) *)
revokeAllUserTokens(p, uid) ==
    /\ procs[p].pc = "idle"
    /\ CanStart
    /\ tokens' = {IF r.userId = uid THEN [r EXCEPT !.blacklisted = TRUE] ELSE r : r \in tokens}
    /\ procs' = [procs EXCEPT ![p] = [procs[p] EXCEPT !.op = "revokeAllUserTokens", !.uid = uid,
                                                      !.pc = "done", !.res = "ok", !.at = now]]
    /\ hist' = [hist EXCEPT !.requests = @ + 1,
                            !.revoked = @ \cup {r.token : r \in {q \in tokens : q.userId = uid}}]
    /\ UNCHANGED <<now, users, devices>>

(* The sessions logoutAllOtherDevices updates: where {userId, type:          *)
(* 'REFRESH', blacklisted: false, deviceId: {not: currentDeviceId}}         *)
OtherSessions(uid, keep) ==
    {r \in tokens : r.userId = uid /\ r.type = "REFRESH" /\ ~r.blacklisted /\ r.deviceId # keep}

(* The device ids a client can name: those of the stored sessions, and one  *)
(* that no session has                                                      *)
SessionDeviceIds == {r.deviceId : r \in tokens} \cup {<<"uuid", <<>>>>}

(* logoutAllOtherDevices: one updateMany, data: {blacklisted: true} *)
logoutAllOtherDevices(p, uid, keep) ==
    /\ procs[p].pc = "idle"
    /\ CanStart
    /\ LET others == OtherSessions(uid, keep)
       IN  /\ tokens' = {IF r \in others THEN [r EXCEPT !.blacklisted = TRUE] ELSE r : r \in tokens}
           /\ hist' = [hist EXCEPT !.requests = @ + 1,
                                   !.revoked = @ \cup {r.token : r \in others}]
    /\ procs' = [procs EXCEPT ![p] = [procs[p] EXCEPT !.op = "logoutAllOtherDevices", !.uid = uid,
                                          !.deviceId = keep, !.rows = tokens, !.at = now,
                                          !.pc = "done", !.res = "ok"]]
    /\ UNCHANGED <<now, users, devices>>

(* logoutDevice: findFirst of the user's session on the device *)
logoutDevice(p, uid, deviceId) ==
    /\ procs[p].pc = "idle"
    /\ CanStart
    /\ LET me == [procs[p] EXCEPT !.op = "logoutDevice", !.uid = uid, !.deviceId = deviceId,
                                  !.at = now]
           found == {r \in tokens : /\ r.userId = uid /\ r.deviceId = deviceId
                                    /\ r.type = "REFRESH" /\ ~r.blacklisted}
       IN  IF found = {}
           THEN procs' = [procs EXCEPT ![p] = [me EXCEPT !.pc = "done", !.res = "NotFound"]]
           ELSE \E r \in found :
                    procs' = [procs EXCEPT ![p] = [me EXCEPT !.pc = "device_logout",
                                                             !.token = r.token]]
    /\ hist' = [hist EXCEPT !.requests = @ + 1]
    /\ UNCHANGED <<now, users, tokens, devices>>

(* logoutDevice: prisma.token.update({where: {id}, data: {blacklisted: true}}) *)
logoutDeviceUpdate(p) ==
    /\ procs[p].pc = "device_logout"
    /\ IF \E r \in tokens : r.token = procs[p].token
       THEN /\ tokens' = Blacklist(procs[p].token)
            /\ procs' = [procs EXCEPT ![p].pc = "done", ![p].res = "ok"]
            /\ hist' = [hist EXCEPT !.revoked = @ \cup {procs[p].token}]
       ELSE /\ tokens' = tokens
            /\ procs' = [procs EXCEPT ![p].pc = "done", ![p].res = "Error"]
            /\ hist' = hist
    /\ UNCHANGED <<now, users, devices>>

(* middlewares/auth.ts authByRole without a required role: jwt.verify of     *)
(* the bearer token, then prisma.user.findUnique of payload.sub; neither    *)
(* payload.type nor the Token rows are read.                                *)
authByRole(p, token) ==
    /\ procs[p].pc = "idle"
    /\ CanStart
    /\ LET me == Call(p, "authByRole", token[1], token)
       IN  procs' = IF jwtVerify(token, now) /\ token[1] \in DOMAIN users
                    THEN [procs EXCEPT ![p] = [me EXCEPT !.pc = "done", !.res = "Authenticated"]]
                    ELSE [procs EXCEPT ![p] = [me EXCEPT !.pc = "done", !.res = "Unauthorized"]]
    /\ hist' = [hist EXCEPT !.requests = @ + 1]
    /\ UNCHANGED <<now, users, tokens, devices>>

(* u1 has been admitted three times, once a second; u2 not yet *)
InitSession ==
    /\ now = MAX_DEVICES_PER_USER
    /\ users = [u \in SessionUsers |-> NewUser("pw0")]
    /\ tokens = {Session("u1", i) : i \in 0 .. MAX_DEVICES_PER_USER - 1}
    /\ devices = {}
    /\ procs = [p \in ProcIds |-> IF p = "p1" THEN Idle ELSE [Idle EXCEPT !.pc = "absent"]]
    /\ hist = [NoHistory(MaxSessionRequests) EXCEPT
                   !.admitted = {generateToken("u1", i, "REFRESH") :
                                     i \in 0 .. MAX_DEVICES_PER_USER - 1},
                   !.created = MAX_DEVICES_PER_USER]

NextSession ==
    \/ \E d \in TokenTicks : TokenClock(d, MaxSessionSeconds) /\ Tick(d, REFRESH_TTL + MaxSessionSeconds)
    \/ \E p \in ProcIds, uid \in SessionUsers : generateAuthTokens(p, uid)
    \/ AdmitSteps
    \/ \E p \in ProcIds, token \in TokenInputs2 : verifyTokenCall(p, token)
    \/ \E p \in ProcIds, token \in TokenInputs2 : logout2(p, token)
    \/ \E p \in ProcIds : logoutBlacklist(p)
    \/ \E p \in ProcIds, token \in TokenInputs2 : logout(p, token)
    \/ \E p \in ProcIds : logoutDelete(p)
    \/ \E p \in ProcIds : removeExpiredTokens(p)
    \/ \E p \in ProcIds, uid \in SessionUsers : revokeAllUserTokens(p, uid)
    \/ \E p \in ProcIds, uid \in SessionUsers, keep \in SessionDeviceIds :
         logoutAllOtherDevices(p, uid, keep)
    \/ \E p \in ProcIds, uid \in SessionUsers, deviceId \in SessionDeviceIds :
         logoutDevice(p, uid, deviceId)
    \/ \E p \in ProcIds : logoutDeviceUpdate(p)
    \/ \E p \in ProcIds, token \in TokenInputs2 : authByRole(p, token)

SpecSession == InitSession /\ [][NextSession]_vars

(* C12: a token that has been revoked has no row that is not blacklisted,  *)
(* and a verifyToken or logout that starts afterwards fails for it, also    *)
(* while it is unexpired.                                                   *)
C12_RevokedTokenNeverVerifies ==
    /\ \A r \in tokens : r.token \in hist.revoked => r.blacklisted
    /\ \A p \in Live(ProcIds) :
           procs[p].op \in {"verifyToken", "logout2"} /\ procs[p].revoked
               => procs[p].pc = "done" /\ procs[p].res \notin {"TokenDoc", "ok"}

C12_Witness ==
    \E p \in Live(ProcIds) :
        /\ procs[p].op = "verifyToken" /\ procs[p].revoked /\ procs[p].pc = "done"
        /\ jwtVerify(procs[p].token, now)
        /\ procs[p].res = "Error: Token not found"

(* C13: verifyToken reports a bad signature first, then expiry, and reports *)
(* an unexpired blacklisted token by an error that a token without any row  *)
(* does not get.                                                            *)
C13_ThreeDistinguishableErrors ==
    \A a \in TokenInputs2 :
        LET out == verifyTokenOutcome(a, "REFRESH", now)
            signed == Len(a) = 3
            expired == signed /\ now >= a[3] + REFRESH_TTL
            rows == {r \in tokens : r.token = a}
        IN  /\ ~signed => out = "JsonWebTokenError"
            /\ expired => out = "TokenExpiredError"
            /\ signed /\ ~expired /\ rows # {} /\ (\A r \in rows : r.blacklisted) =>
                   /\ out \notin {"JsonWebTokenError", "TokenExpiredError", "TokenDoc"}
                   /\ \A b \in TokenInputs2 :
                          /\ Len(b) = 3 /\ now < b[3] + REFRESH_TTL
                          /\ ~\E r \in tokens : r.token = b
                          => verifyTokenOutcome(b, "REFRESH", now) # out

(* C14: for a user with 2FA on, disableTwoFactor succeeds exactly when the  *)
(* submitted code is a TOTP code the service accepts for the stored secret  *)
(* or one of the stored backup codes, and a success leaves 2FA off with the *)
(* secret and the backup codes wiped.                                       *)
C14_DisableNeedsVerifiedCode ==
    \A p \in Live(ProcIds) :
        procs[p].pc = "done" /\ procs[p].op = "disableTwoFactor" /\ procs[p].user.twoFactorEnabled
        => /\ procs[p].res = "ok" <=>
                  \/ verifyTotp(procs[p].user.twoFactorSecret, procs[p].totpCode, procs[p].at)
                  \/ procs[p].code \in Range(procs[p].user.twoFactorBackupCodes)
           /\ procs[p].res = "ok" =>
                  /\ ~users[procs[p].uid].twoFactorEnabled
                  /\ users[procs[p].uid].twoFactorSecret = NoSecret
                  /\ users[procs[p].uid].twoFactorBackupCodes = <<>>

(* The enrollment state that the stored fields of a user stand for; after a *)
(* disable the row is that of a user who never set 2FA up                   *)
TwoFactorState(user) ==
    IF user.twoFactorEnabled THEN "ENABLED"
    ELSE IF user.twoFactorSecret # NoSecret THEN "PENDING"
    ELSE "NOT_SETUP"

TwoFactorFields(user) ==
    <<user.twoFactorEnabled, user.twoFactorSecret, user.twoFactorBackupCodes,
      user.twoFactorVerified>>

(* C15: the enrollment state moves only from not set up to pending (setup   *)
(* stores a secret, enabled stays false), from pending to enabled (enable   *)
(* with a TOTP code valid for the pending secret) and from enabled to       *)
(* disabled; enable without a stored secret or with an invalid code, and    *)
(* setup or enable on an enabled user, fail and leave the 2FA fields as     *)
(* they were.                                                               *)
C15_EnrollmentMoves ==
    /\ [](\A p \in Live(ProcIds) :
             procs[p].pc = "done" /\ procs[p].op \in {"setupTwoFactor", "enableTwoFactor"}
             => LET u == procs[p].user
                IN  /\ procs[p].op = "setupTwoFactor" =>
                           (procs[p].res = "ok" <=> ~u.twoFactorEnabled)
                    /\ procs[p].op = "enableTwoFactor" =>
                           (procs[p].res = "ok" <=>
                                /\ ~u.twoFactorEnabled
                                /\ u.twoFactorSecret # NoSecret
                                /\ verifyTotp(u.twoFactorSecret, procs[p].totpCode, procs[p].at))
                    /\ procs[p].res # "ok" =>
                           TwoFactorFields(users[procs[p].uid]) = TwoFactorFields(u)
                    /\ procs[p].res = "ok" =>
                           TwoFactorState(users[procs[p].uid]) =
                               IF procs[p].op = "setupTwoFactor" THEN "PENDING" ELSE "ENABLED")
    /\ [][\A uid \in UserIds :
             LET a == TwoFactorState(users[uid])
                 b == TwoFactorState(users'[uid])
             IN  a # b =>
                   /\ <<a, b>> \in {<<"NOT_SETUP", "PENDING">>, <<"PENDING", "ENABLED">>,
                                    <<"ENABLED", "NOT_SETUP">>}
                   /\ a = "PENDING" =>
                          /\ users'[uid].twoFactorSecret = users[uid].twoFactorSecret
                          /\ \E p \in Live(ProcIds) :
                                 /\ procs[p].op = "enableTwoFactor"
                                 /\ procs[p].uid = uid
                                 /\ verifyTotp(users[uid].twoFactorSecret, procs[p].totpCode,
                                               procs[p].at)]_vars

(* An enable with a valid code has turned 2FA on, and a later enable on the *)
(* enabled user has failed                                                  *)
C15_Witness ==
    \E p \in Live(ProcIds) :
        /\ procs[p].pc = "done"
        /\ procs[p].op = "enableTwoFactor"
        /\ procs[p].res = "BadRequest"
        /\ procs[p].user.twoFactorEnabled
        /\ users[procs[p].uid].twoFactorEnabled

(* C16: no step removes a Token row that is not expired (only the expiry   *)
(* sweep removes rows, and it removes those with expires < now), and no     *)
(* step turns a row's blacklisted flag from true to false.                  *)
C16_RowsLeaveOnlyBySweep ==
    [][\A r \in tokens :
           IF \E q \in tokens' : q.token = r.token
           THEN \A q \in tokens' : q.token = r.token /\ r.blacklisted => q.blacklisted
           ELSE /\ r.expires < now
                /\ \E p \in Live(ProcIds) :
                       procs[p].pc = "idle" /\ procs'[p].op = "removeExpiredTokens"]_vars

(* C17: when an admission has returned its tokens, a REFRESH Token row     *)
(* that is not blacklisted and carries a device holds the returned refresh  *)
(* token of the admitted user (the row refreshAuth's verifyToken needs to   *)
(* find).                                                                   *)
C17_ReturnedRefreshTokenPersisted ==
    \A p \in Live(ProcIds) :
        procs[p].pc = "done" /\ procs[p].res = "Tokens"
        => \E r \in tokens :
               /\ r.token = procs[p].refreshToken
               /\ r.userId = procs[p].uid
               /\ r.type = "REFRESH"
               /\ ~r.blacklisted
               /\ r.deviceId # <<>>

----------------------------------------------------------------------------
(* The device service that keeps Device rows: removeDevice and              *)
(* removeAllOtherDevices                                                    *)

(* The filter of removeAllOtherDevices without the userId *)
OtherDevicesOfAnyone(uid, keep) == {d \in devices : d.deviceId # keep}

(* where {userId, deviceId: {not: currentDeviceId}} on the Device rows *)
OtherDevices(uid, keep) == {d \in devices : d.userId = uid /\ d.deviceId # keep}

(* removeAllOtherDevices: prisma.token.deleteMany of the user's rows bound  *)
(* to a device other than the current one (not does not match a row whose   *)
(* deviceId is null)                                                        *)
removeAllOtherDevices(p, uid, keep) ==
    /\ procs[p].pc = "idle"
    /\ CanStart
    /\ tokens' = {r \in tokens : ~(r.userId = uid /\ r.deviceId # <<>> /\ r.deviceId # keep)}
    /\ procs' = [procs EXCEPT ![p] = [procs[p] EXCEPT !.op = "removeAllOtherDevices", !.uid = uid,
                                          !.deviceId = keep, !.before = devices, !.rows = tokens,
                                          !.at = now, !.pc = "others_devices"]]
    /\ hist' = [hist EXCEPT !.requests = @ + 1]
    /\ UNCHANGED <<now, users, devices>>

(* removeAllOtherDevices: prisma.device.deleteMany *)
removeAllOtherDevicesDevices(p) ==
    /\ procs[p].pc = "others_devices"
    /\ devices' = devices \ OtherDevices(procs[p].uid, procs[p].deviceId)
    /\ procs' = [procs EXCEPT ![p].pc = "done", ![p].res = "ok"]
    /\ UNCHANGED <<now, users, tokens, hist>>

(* removeDevice: getDeviceById(deviceId, userId) *)
removeDevice(p, uid, deviceId) ==
    /\ procs[p].pc = "idle"
    /\ CanStart
    /\ LET me == [procs[p] EXCEPT !.op = "removeDevice", !.uid = uid, !.deviceId = deviceId,
                                  !.at = now]
       IN  procs' = IF \E d \in DevicesOf(uid) : d.deviceId = deviceId
                    THEN [procs EXCEPT ![p] = [me EXCEPT !.pc = "remove_tokens"]]
                    ELSE [procs EXCEPT ![p] = [me EXCEPT !.pc = "done", !.res = "NotFound"]]
    /\ hist' = [hist EXCEPT !.requests = @ + 1]
    /\ UNCHANGED <<now, users, tokens, devices>>

(* removeDevice: prisma.token.deleteMany({where: {userId, deviceId}}) *)
removeDeviceTokens(p) ==
    /\ procs[p].pc = "remove_tokens"
    /\ tokens' = {r \in tokens : ~(r.userId = procs[p].uid /\ r.deviceId = procs[p].deviceId)}
    /\ procs' = [procs EXCEPT ![p].pc = "remove_device"]
    /\ UNCHANGED <<now, users, devices, hist>>

(* removeDevice: prisma.device.delete({where: {id}}), which throws when no  *)
(* row has the id                                                           *)
removeDeviceDelete(p) ==
    /\ procs[p].pc = "remove_device"
    /\ LET row == {d \in devices : d.userId = procs[p].uid /\ d.deviceId = procs[p].deviceId}
       IN  /\ devices' = devices \ row
           /\ procs' = [procs EXCEPT ![p].pc = "done",
                                     ![p].res = IF row = {} THEN "Error" ELSE "ok"]
    /\ UNCHANGED <<now, users, tokens, hist>>

InitOtherDevices ==
    /\ now = 0
    /\ users = [u \in SessionUsers |-> NewUser("pw0")]
    /\ tokens = {}
    /\ devices = {}
    /\ procs = [p \in ProcIds |-> IF p = "p1" THEN Idle ELSE [Idle EXCEPT !.pc = "absent"]]
    /\ hist = NoHistory(MaxDeviceRequests)

NextOtherDevices ==
    \/ \E p \in ProcIds : Return(p)
    \/ \E p \in ProcIds, uid \in SessionUsers, d \in DeviceIds :
         loginUserWithEmailAndPassword2(p, uid, "pw0", d)
    \/ \E p \in ProcIds : login2DeviceLimit(p)
    \/ \E p \in ProcIds : login2Last(p)
    \/ \E p \in ProcIds : createDeviceSession_part007(p)
    \/ \E p \in ProcIds : createDeviceSessionSave(p)
    \/ \E p \in ProcIds : createDeviceSessionToken(p)
    \/ \E p \in ProcIds, uid \in SessionUsers, keep \in DeviceIds : removeAllOtherDevices(p, uid, keep)
    \/ \E p \in ProcIds : removeAllOtherDevicesDevices(p)
    \/ \E p \in ProcIds, uid \in SessionUsers, d \in DeviceIds : removeDevice(p, uid, d)
    \/ \E p \in ProcIds : removeDeviceTokens(p)
    \/ \E p \in ProcIds : removeDeviceDelete(p)

SpecOtherDevices == InitOtherDevices /\ [][NextOtherDevices]_vars

(* The rows that an operation on the other devices of uid has to leave as   *)
(* they are: those of the kept device and those of every other user         *)
Kept(S, uid, keep) == {r \in S : r.userId # uid \/ r.deviceId = keep}

----------------------------------------------------------------------------
(* Forced password change and password expiry                               *)

PASSWORD_EXPIRY == 90 * 86400     \* PASSWORD_EXPIRY_DAYS, in seconds

(* forcePasswordChange: one update, data: {forcePasswordChange: true} *)
forcePasswordChange(p, uid) ==
    /\ procs[p].pc = "idle"
    /\ CanStart
    /\ users' = [users EXCEPT ![uid].forcePasswordChange = TRUE]
    /\ procs' = [procs EXCEPT ![p] = [procs[p] EXCEPT !.op = "forcePasswordChange", !.uid = uid,
                                          !.at = now, !.pc = "done", !.res = "ok"]]
    /\ hist' = [hist EXCEPT !.requests = @ + 1]
    /\ UNCHANGED <<now, tokens, devices>>

(* needsPasswordChange: findUnique of the flag *)
needsPasswordChange(p, uid) ==
    /\ procs[p].pc = "idle"
    /\ CanStart
    /\ LET me == [procs[p] EXCEPT !.op = "needsPasswordChange", !.uid = uid, !.at = now,
                                  !.user = users[uid]]
       IN  procs' = IF users[uid].forcePasswordChange
                    THEN [procs EXCEPT ![p] = [me EXCEPT !.pc = "done", !.res = "true"]]
                    ELSE [procs EXCEPT ![p] = [me EXCEPT !.pc = "needs_expired"]]
    /\ hist' = [hist EXCEPT !.requests = @ + 1]
    /\ UNCHANGED <<now, users, tokens, devices>>

(* isPasswordExpired: findUnique of passwordChangedAt; never changed means  *)
(* not expired, else new Date() > passwordChangedAt + 90 days               *)
isPasswordExpired(p) ==
    /\ procs[p].pc = "needs_expired"
    /\ LET changed == users[procs[p].uid].passwordChangedAt
       IN  procs' = [procs EXCEPT ![p].pc = "done",
                        ![p].res = IF changed # NoDate /\ now > changed + PASSWORD_EXPIRY
                                   THEN "true" ELSE "false"]
    /\ UNCHANGED <<now, users, tokens, devices, hist>>

DAY == 24 * 60 * 60     \* 1000 * 60 * 60 * 24 ms

(* Math.ceil(a / b) of integers, b > 0 *)
ceil(a, b) == -((-a) \div b)

(* `new Date() > expiryDate', false without passwordChangedAt *)
passwordExpired(changed, t) == changed # NoDate /\ t > changed + PASSWORD_EXPIRY

(* getPasswordExpiryInfo of a row read at t *)
expiryInfo(changed, t) ==
    IF changed = NoDate
    THEN [isExpired |-> FALSE, daysUntilExpiry |-> PASSWORD_EXPIRY \div DAY,
          expiryDate |-> t + PASSWORD_EXPIRY]
    ELSE LET expiryDate == changed + PASSWORD_EXPIRY
             daysUntilExpiry == ceil(expiryDate - t, DAY)
         IN  [isExpired |-> daysUntilExpiry < 0,
              daysUntilExpiry |-> IF daysUntilExpiry > 0 THEN daysUntilExpiry ELSE 0,
              expiryDate |-> expiryDate]

(* getPasswordExpiryInfo: findUnique of passwordChangedAt, then the answer *)
getPasswordExpiryInfo(p, uid) ==
    /\ procs[p].pc = "idle"
    /\ CanStart
    /\ LET info == expiryInfo(users[uid].passwordChangedAt, now)
       IN  procs' = [procs EXCEPT ![p] =
                       [procs[p] EXCEPT !.op = "getPasswordExpiryInfo", !.uid = uid, !.at = now,
                                        !.user = users[uid], !.pc = "done",
                                        !.res = IF info.isExpired THEN "true" ELSE "false"]]
    /\ hist' = [hist EXCEPT !.requests = @ + 1]
    /\ UNCHANGED <<now, users, tokens, devices>>

InitForcedChange ==
    /\ now = 0
    /\ users = [u \in UserIds |-> NewUser("pw0")]
    /\ tokens = {}
    /\ devices = {}
    /\ procs = [p \in ProcIds |-> IF p = "p1" THEN Idle ELSE [Idle EXCEPT !.pc = "absent"]]
    /\ hist = NoHistory(MaxForcedRequests)

NextForcedChange ==
    \/ \E d \in {1, PASSWORD_EXPIRY} :
         TokenClock(d, MaxForcedSeconds) /\ Tick(d, PASSWORD_EXPIRY + MaxForcedSeconds)
    \/ \E p \in ProcIds : Return(p)
    \/ \E p \in ProcIds, uid \in UserIds, pw \in {"pw1", "pw2"} \cup WeakPasswords :
         updatePassword(p, uid, pw)
    \/ \E p \in ProcIds : addPasswordToHistory(p)
    \/ \E p \in ProcIds : addPasswordToHistoryUpdate(p)
    \/ \E p \in ProcIds : updatePasswordUpdate(p)
    \/ \E p \in ProcIds, uid \in UserIds : forcePasswordChange(p, uid)
    \/ \E p \in ProcIds, uid \in UserIds : needsPasswordChange(p, uid)
    \/ \E p \in ProcIds : isPasswordExpired(p)
    \/ \E p \in ProcIds, uid \in UserIds : getPasswordExpiryInfo(p, uid)

SpecForcedChange == InitForcedChange /\ [][NextForcedChange]_vars

(* C19: when updatePassword has stored the new password, the user's         *)
(* forcePasswordChange flag is false, and a needsPasswordChange that        *)
(* answers true has found the password expired or the flag set.             *)
C19_UpdateClearsForcedChange ==
    \A p \in Live(ProcIds) :
        /\ procs[p].pc = "done" /\ procs[p].op = "updatePassword" /\ procs[p].res = "Updated"
               => ~users[procs[p].uid].forcePasswordChange
        /\ procs[p].pc = "done" /\ procs[p].op = "needsPasswordChange" /\ procs[p].res = "true"
               => \/ users[procs[p].uid].forcePasswordChange
                  \/ /\ users[procs[p].uid].passwordChangedAt # NoDate
                     /\ now > users[procs[p].uid].passwordChangedAt + PASSWORD_EXPIRY

----------------------------------------------------------------------------
(* The writers of failedLoginAttempts and lockoutUntil: the two logins,     *)
(* resetPassword and unlockUserAccount                                      *)

(* data: {failedLoginAttempts: 0} alone *)
clearAttempts(user) == [user EXCEPT !.failedLoginAttempts = 0]

(* data: {failedLoginAttempts: 0, lockoutUntil: null} *)
clearLockout(user) == [user EXCEPT !.failedLoginAttempts = 0, !.lockoutUntil = NoDate]

(* generateResetPasswordToken: getUserByEmail, then saveToken (token is     *)
(* unique over the Token rows)                                              *)
generateResetPasswordToken(p, uid) ==
    /\ procs[p].pc = "idle"
    /\ CanStart
    /\ LET token == generateToken(uid, now, "RESET_PASSWORD")
           row == [token |-> token, type |-> "RESET_PASSWORD", userId |-> uid,
                   expires |-> now, blacklisted |-> FALSE, deviceId |-> <<>>,
                   createdAt |-> hist.created]
           me == [procs[p] EXCEPT !.op = "generateResetPasswordToken", !.uid = uid, !.at = now,
                                  !.token = token, !.pc = "done"]
       IN  IF \E r \in tokens : r.token = token
           THEN /\ tokens' = tokens
                /\ procs' = [procs EXCEPT ![p] = [me EXCEPT !.res = "Error"]]
                /\ hist' = [hist EXCEPT !.requests = @ + 1]
           ELSE /\ tokens' = tokens \cup {row}
                /\ procs' = [procs EXCEPT ![p] = [me EXCEPT !.res = "ok"]]
                /\ hist' = [hist EXCEPT !.requests = @ + 1, !.created = @ + 1]
    /\ UNCHANGED <<now, users, devices>>

(* resetPassword: verifyToken(resetPasswordToken, RESET_PASSWORD).  The     *)
(* lifetime of a reset token is configuration, so the token may or may not  *)
(* have expired by now.                                                     *)
resetPassword(p, token, newPassword, expired) ==
    /\ procs[p].pc = "idle"
    /\ CanStart
    /\ LET me == [procs[p] EXCEPT !.op = "resetPassword", !.uid = token[1], !.token = token,
                                  !.password = newPassword, !.at = now]
           doc == {r \in tokens : /\ r.token = token /\ r.type = "RESET_PASSWORD"
                                  /\ r.userId = token[1] /\ ~r.blacklisted}
       IN  procs' = IF expired \/ doc = {}
                    THEN [procs EXCEPT ![p] = [me EXCEPT !.pc = "done", !.res = "Unauthorized"]]
                    ELSE [procs EXCEPT ![p] = [me EXCEPT !.pc = "reset_update"]]
    /\ hist' = [hist EXCEPT !.requests = @ + 1]
    /\ UNCHANGED <<now, users, tokens, devices>>

(* resetPassword: getUserById, then updateUserById(user.id, {password,      *)
(* failedLoginAttempts: 0, lockoutUntil: null})                             *)
resetPasswordUpdate(p) ==
    /\ procs[p].pc = "reset_update"
    /\ users' = [users EXCEPT ![procs[p].uid] =
                     [clearLockout(@) EXCEPT !.password = encryptPassword(procs[p].password)]]
    /\ procs' = [procs EXCEPT ![p].pc = "reset_delete"]
    /\ UNCHANGED <<now, tokens, devices, hist>>

(* resetPassword: prisma.token.deleteMany({where: {userId, type: RESET_PASSWORD}}) *)
resetPasswordDelete(p) ==
    /\ procs[p].pc = "reset_delete"
    /\ tokens' = {r \in tokens : ~(r.userId = procs[p].uid /\ r.type = "RESET_PASSWORD")}
    /\ procs' = [procs EXCEPT ![p].pc = "done", ![p].res = "ok"]
    /\ UNCHANGED <<now, users, devices, hist>>

(* unlockUserAccount: findUnique, 400 unless isLocked *)
unlockUserAccount(p, uid) ==
    /\ procs[p].pc = "idle"
    /\ CanStart
    /\ LET me == [procs[p] EXCEPT !.op = "unlockUserAccount", !.uid = uid, !.at = now,
                                  !.user = users[uid]]
       IN  procs' = IF ~users[uid].isLocked
                    THEN [procs EXCEPT ![p] = [me EXCEPT !.pc = "done", !.res = "BadRequest"]]
                    ELSE [procs EXCEPT ![p] = [me EXCEPT !.pc = "unlock_update"]]
    /\ hist' = [hist EXCEPT !.requests = @ + 1]
    /\ UNCHANGED <<now, users, tokens, devices>>

(* unlockUserAccount: update, data: {isLocked: false, failedLoginAttempts:  *)
(* 0, lockoutUntil: null}                                                   *)
unlockUserAccountUpdate(p) ==
    /\ procs[p].pc = "unlock_update"
    /\ users' = [users EXCEPT ![procs[p].uid] = [clearLockout(@) EXCEPT !.isLocked = FALSE]]
    /\ procs' = [procs EXCEPT ![p].pc = "done", ![p].res = "ok"]
    /\ UNCHANGED <<now, tokens, devices, hist>>

(* isLocked is written true by no service; an account is found locked or    *)
(* not when the requests start                                              *)
InitLockout ==
    /\ now = 0
    /\ \E locked \in BOOLEAN :
         users = [u \in UserIds |-> [NewUser("pw0") EXCEPT !.isLocked = locked]]
    /\ tokens = {}
    /\ devices = {}
    /\ procs = [p \in ProcIds |-> Idle]
    /\ hist = NoHistory(MaxLockoutRequests)

NextLockout ==
    \/ Tick(LOCKOUT_SECONDS, MaxLockoutNow)
    \/ \E p \in ProcIds : Return(p)
    \/ \E p \in ProcIds, uid \in UserIds, pw \in {"pw0", "pw1"} :
         loginUserWithEmailAndPassword(p, uid, pw)
    \/ \E p \in ProcIds : loginRecordFailure(p)
    \/ \E p \in ProcIds : loginReset(p)
    \/ \E p \in ProcIds : loginLast(p)
    \/ \E p \in ProcIds, uid \in UserIds : loginUserWithEmailAndPassword2(p, uid, "pw0", "d1")
    \/ \E p \in ProcIds : login2DeviceLimit(p)
    \/ \E p \in ProcIds : login2Reset(p)
    \/ \E p \in ProcIds : login2Last(p)
    \/ \E p \in ProcIds : createDeviceSession_part007(p)
    \/ \E p \in ProcIds : createDeviceSessionSave(p)
    \/ \E p \in ProcIds : createDeviceSessionToken(p)
    \/ \E p \in ProcIds, uid \in UserIds : generateResetPasswordToken(p, uid)
    \/ \E p \in ProcIds, uid \in UserIds, expired \in BOOLEAN :
         resetPassword(p, generateToken(uid, 0, "RESET_PASSWORD"), "pw0", expired)
    \/ \E p \in ProcIds : resetPasswordUpdate(p)
    \/ \E p \in ProcIds : resetPasswordDelete(p)
    \/ \E p \in ProcIds, uid \in UserIds : unlockUserAccount(p, uid)
    \/ \E p \in ProcIds : unlockUserAccountUpdate(p)

SpecLockout == InitLockout /\ [][NextLockout]_vars

(* C20: in every state a user's lockoutUntil is null unless the user's      *)
(* failedLoginAttempts is 5 or more, whatever failed logins, successful     *)
(* logins, password resets and admin unlocks have run, one at a time or     *)
(* together.                                                                *)
C20_LockoutOnlyFromFiveFailures ==
    \A uid \in UserIds :
        users[uid].lockoutUntil # NoDate => users[uid].failedLoginAttempts >= LOCKOUT_THRESHOLD

(* Five failed logins have locked the account, and an admin unlock has      *)
(* cleared the lockout                                                      *)
C20_Witness ==
    \E p \in Live(ProcIds) :
        /\ procs[p].pc = "done"
        /\ procs[p].op = "unlockUserAccount"
        /\ procs[p].res = "ok"
        /\ hist.last.lockoutUntil # NoDate
        /\ users[procs[p].uid].lockoutUntil = NoDate
        /\ users[procs[p].uid].failedLoginAttempts = 0

(* The step of p that writes the list a generation has made: the update of *)
(* one of the operations named                                             *)
Generates(p, uid, ops) ==
    /\ procs[p].uid = uid
    /\ procs[p].op \in ops
    /\ procs[p].pc \in {"setup_update", "regenerate_update"}
    /\ users'[uid].twoFactorBackupCodes = procs[p].codes

(* The step in which a backup-code redemption of p succeeds *)
Redeems(p, uid) ==
    /\ procs[p].uid = uid
    /\ procs[p].pc = "backup_update"
    /\ procs'[p].pc = "done" /\ procs'[p].res = "true"

BackupCodesChange(ops) ==
    \A uid \in UserIds :
        LET a == Len(users[uid].twoFactorBackupCodes)
            b == Len(users'[uid].twoFactorBackupCodes)
        IN  /\ b > a => \E p \in Live(ProcIds) : Generates(p, uid, ops)
            /\ \A p \in Live(ProcIds) : Redeems(p, uid) => b = a - 1

(* C21: the number of stored backup codes of a user grows in no step but a *)
(* regeneration, which replaces the whole list, and every successful       *)
(* redemption lowers it by exactly one.                                     *)
C21_CodesGrowOnlyByRegeneration == [][BackupCodesChange({"regenerateBackupCodes"})]_vars

(* C21 as it holds: the number of stored backup codes grows in no step but *)
(* the update of setupTwoFactor or of regenerateBackupCodes, each of which  *)
(* replaces the whole list by a generated one, and every successful         *)
(* redemption lowers it by exactly one.                                     *)
C21_CodesGrowOnlyByGeneration ==
    [][BackupCodesChange({"regenerateBackupCodes", "setupTwoFactor"})]_vars

(* A backup code of the generated list has been redeemed: the stored list  *)
(* is the one read less the code                                            *)
C21_Witness ==
    \E p \in Live(ProcIds) :
        /\ procs[p].pc = "done" /\ procs[p].op = "verifyTwoFactor" /\ procs[p].res = "true"
        /\ procs[p].code \in Range(procs[p].codes)
        /\ Len(users[procs[p].uid].twoFactorBackupCodes) = Len(procs[p].codes) - 1
        /\ procs[p].code \notin Range(users[procs[p].uid].twoFactorBackupCodes)

(* A lockout that has run out: set, and not after t *)
lockoutExpired(user, t) == user.lockoutUntil # NoDate /\ ~isLockedOut(user, t)

(* C22: while a lockout that has run out is still stored,                   *)
(* failedLoginAttempts is still 5 or more, and a failed login that found    *)
(* the account so has added one to it and set lockoutUntil to 15 minutes    *)
(* after the attempt.                                                       *)
C22_FailureAfterExpiryLocksAgain ==
    /\ \A uid \in UserIds :
           lockoutExpired(users[uid], now) =>
               users[uid].failedLoginAttempts >= LOCKOUT_THRESHOLD
    /\ \A p \in Live(ProcIds) :
           /\ procs[p].pc = "done" /\ procs[p].op = "login"
           /\ procs[p].res = "InvalidCredentials"
           /\ lockoutExpired(procs[p].user, procs[p].at)
           => /\ users[procs[p].uid].failedLoginAttempts = procs[p].user.failedLoginAttempts + 1
              /\ users[procs[p].uid].lockoutUntil = procs[p].at + LOCKOUT_SECONDS

(* A failed login has found an expired lockout and has locked the account   *)
(* again                                                                    *)
C22_Witness ==
    \E p \in Live(ProcIds) :
        /\ procs[p].pc = "done" /\ procs[p].op = "login"
        /\ procs[p].res = "InvalidCredentials"
        /\ lockoutExpired(procs[p].user, procs[p].at)
        /\ procs[p].user.lockoutUntil < procs[p].at
        /\ isLockedOut(users[procs[p].uid], now)

----------------------------------------------------------------------------
(* The second step of a two-factor login: completeLoginWithTwoFactor        *)
(* (auth.service.ts, first implementation) behind POST /2fa/verify, and     *)
(* verifyTwoFactorToken (second implementation) behind POST                 *)
(* /v1/auth/verify-2fa.  Both routes are public and read {userId, token}    *)
(* from the request body.                                                   *)

MaxCompleteSeconds == 3

MaxCompleteRequests == 4

(* What a client may submit at the second step: a code of the present step  *)
(* or of a step out of the window, made from the account's secret or from   *)
(* the user id, or a backup code                                            *)
LoginTokens ==
    {[totp |-> totp(secret, (now \div TOTP_PERIOD) + d), code |-> "none"] :
         secret \in {"s1"} \cup UserIds, d \in {0, 3}}
    \cup {[totp |-> <<>>, code |-> c] : c \in {"c1", "c9"}}

recordFailedAttempt(uid) ==
    [users EXCEPT ![uid].failedLoginAttempts = @ + 1,
                  ![uid].lockoutUntil = lockoutFor(users[uid].failedLoginAttempts + 1, now)]

(* securityService.logLoginFailed(email, req, reason): one security event   *)
(* is logged; the user rows stay as they are.                               *)
logLoginFailed(uid) == users

(* getUserById; 400 unless user.twoFactorEnabled *)
completeLoginWithTwoFactor(p, uid, token) ==
    /\ procs[p].pc = "idle"
    /\ CanStart
    /\ LET me == Check(p, "completeLoginWithTwoFactor", uid, token)
       IN  procs' = IF ~me.user.twoFactorEnabled
                    THEN [procs EXCEPT ![p] = [me EXCEPT !.pc = "done", !.res = "BadRequest"]]
                    ELSE [procs EXCEPT ![p] = [me EXCEPT !.pc = "complete_verify"]]
    /\ hist' = [hist EXCEPT !.requests = @ + 1]
    /\ UNCHANGED <<now, users, tokens, devices>>

(* twoFactorService.verifyTwoFactor(userId, token): its findUnique and the  *)
(* TOTP check; a token that is no TOTP code is tried as a backup code.      *)
completeLoginVerify(p) ==
    /\ procs[p].pc = "complete_verify"
    /\ LET me == procs[p]
           user == users[me.uid]
           isValidToken == verifyTotp(user.twoFactorSecret, me.totpCode, now)
       IN  IF ~user.twoFactorEnabled \/ user.twoFactorSecret = NoSecret
           THEN /\ users' = logLoginFailed(me.uid)
                /\ procs' = [procs EXCEPT ![p].pc = "done", ![p].res = "Unauthorized"]
           ELSE /\ users' = users
                /\ procs' = IF isValidToken
                            THEN [procs EXCEPT ![p].pc = "complete_last", ![p].totp = "true"]
                            ELSE [procs EXCEPT ![p].pc = "complete_backup", ![p].totp = "false"]
    /\ UNCHANGED <<now, tokens, devices, hist>>

(* verifyBackupCode: its findUnique; `if (!isValid)` logs the failure and   *)
(* answers 401 Invalid 2FA token.                                           *)
completeLoginBackup(p) ==
    /\ procs[p].pc = "complete_backup"
    /\ LET me == procs[p]
           codes == users[me.uid].twoFactorBackupCodes
       IN  IF me.code \in Range(codes)
           THEN /\ users' = users
                /\ procs' = [procs EXCEPT ![p].pc = "complete_redeem", ![p].codes = codes]
           ELSE /\ users' = logLoginFailed(me.uid)
                /\ procs' = [procs EXCEPT ![p].pc = "done", ![p].res = "Unauthorized",
                                          ![p].codes = codes]
    /\ UNCHANGED <<now, tokens, devices, hist>>

(* verifyBackupCode: the update that stores the list without the code *)
completeLoginRedeem(p) ==
    /\ procs[p].pc = "complete_redeem"
    /\ users' = [users EXCEPT ![procs[p].uid].twoFactorBackupCodes =
                                  splice(procs[p].codes, procs[p].code)]
    /\ procs' = [procs EXCEPT ![p].pc = "complete_last"]
    /\ UNCHANGED <<now, tokens, devices, hist>>

(* updateUserById(user.id, {lastLoginAt}); the controller then calls        *)
(* generateAuthTokens(user) without a request, so createDeviceSession       *)
(* throws on req.body.                                                      *)
completeLoginLast(p) ==
    /\ procs[p].pc = "complete_last"
    /\ procs' = [procs EXCEPT ![p].pc = "done", ![p].res = "Error"]
    /\ UNCHANGED <<now, users, tokens, devices, hist>>

(* auth.controller verifyTwoFactor: verifyTwoFactorToken(userId, token) is  *)
(* twoFactorService.verifyToken(userId, token), a TOTP check with the user  *)
(* id in the place of the secret; then getUserById and                      *)
(* generateAuthTokens(user, req).                                           *)
verifyTwoFactorToken(uid, token, t) == verifyTotp(uid, token.totp, t)

verifyTwoFactor_authController(p, uid, token) ==
    /\ procs[p].pc = "idle"
    /\ CanStart
    /\ LET me == Check(p, "verify-2fa", uid, token)
       IN  procs' = IF ~verifyTwoFactorToken(uid, token, now)
                    THEN [procs EXCEPT ![p] = [me EXCEPT !.pc = "done", !.res = "Unauthorized"]]
                    ELSE [procs EXCEPT ![p] =
                            [me EXCEPT !.pc = "device_limit",
                                       !.refreshToken = generateToken(uid, now, "REFRESH")]]
    /\ hist' = [hist EXCEPT !.requests = @ + 1]
    /\ UNCHANGED <<now, users, tokens, devices>>

InitCompleteLogin ==
    /\ now = 0
    /\ \E tf \in BOOLEAN :
         users = [u \in UserIds |->
                    IF tf THEN [NewUser("pw0") EXCEPT !.twoFactorEnabled = TRUE,
                                                      !.twoFactorVerified = TRUE,
                                                      !.twoFactorSecret = "s1",
                                                      !.twoFactorBackupCodes = BackupCodes]
                          ELSE NewUser("pw0")]
    /\ tokens = {}
    /\ devices = {}
    /\ procs = [p \in ProcIds |-> IF p = "p1" THEN Idle ELSE [Idle EXCEPT !.pc = "absent"]]
    /\ hist = NoHistory(MaxCompleteRequests)

NextCompleteLogin ==
    \/ Tick(1, MaxCompleteSeconds)
    \/ \E p \in ProcIds, uid \in UserIds, pw \in {"pw0", "pw1"} :
         loginUserWithEmailAndPassword(p, uid, pw)
    \/ \E p \in ProcIds : loginRecordFailure(p)
    \/ \E p \in ProcIds : loginReset(p)
    \/ \E p \in ProcIds : loginLast(p)
    \/ \E p \in ProcIds, uid \in UserIds, token \in LoginTokens :
         completeLoginWithTwoFactor(p, uid, token)
    \/ \E p \in ProcIds : completeLoginVerify(p)
    \/ \E p \in ProcIds : completeLoginBackup(p)
    \/ \E p \in ProcIds : completeLoginRedeem(p)
    \/ \E p \in ProcIds : completeLoginLast(p)
    \/ \E p \in ProcIds, uid \in UserIds, token \in LoginTokens :
         verifyTwoFactor_authController(p, uid, token)
    \/ AdmitSteps

SpecCompleteLogin == InitCompleteLogin /\ [][NextCompleteLogin]_vars

(* C23: tokens reach a user with two-factor authentication enabled only     *)
(* after that user's password check has passed: a second-factor request     *)
(* never ends with tokens while no password check of the account passed.    *)
C23_TokensOnlyAfterPasswordStep ==
    \A p \in Live(ProcIds) :
        /\ procs[p].pc = "done" /\ procs[p].res = "Tokens"
        /\ users[procs[p].uid].twoFactorEnabled
        => hist.passed

(* C30: a second-factor verification that fails during login leaves         *)
(* failedLoginAttempts and lockoutUntil of the account as they were.        *)
FailsSecondFactor(p) ==
    /\ procs[p].op = "completeLoginWithTwoFactor"
    /\ procs[p].pc # "done"
    /\ procs'[p].pc = "done" /\ procs'[p].res = "Unauthorized"

C30_FailedSecondFactorKeepsLockout ==
    [][\A p \in Live(ProcIds) :
          FailsSecondFactor(p) =>
            /\ users'[procs[p].uid].failedLoginAttempts =
                   users[procs[p].uid].failedLoginAttempts
            /\ users'[procs[p].uid].lockoutUntil = users[procs[p].uid].lockoutUntil
            /\ users'[procs[p].uid].failedLoginAttempts = procs[p].user.failedLoginAttempts
            /\ users'[procs[p].uid].lockoutUntil = procs[p].user.lockoutUntil]_vars

C30_Witness ==
    \E p \in Live(ProcIds) :
        /\ procs[p].pc = "done" /\ procs[p].op = "completeLoginWithTwoFactor"
        /\ procs[p].res = "Unauthorized"
        /\ procs[p].user.failedLoginAttempts > 0
        /\ users[procs[p].uid].failedLoginAttempts = procs[p].user.failedLoginAttempts

(* C24: authByRole lets a request through only when its bearer token is an  *)
(* ACCESS token that has not been revoked; a REFRESH token of the same      *)
(* user, or a token blacklisted by revokeAllUserTokens, is turned away.     *)
C24_OnlyLiveAccessTokensAuthenticate ==
    \A p \in Live(ProcIds) :
        /\ procs[p].pc = "done" /\ procs[p].op = "authByRole"
        /\ procs[p].res = "Authenticated"
        => /\ procs[p].token[2] = "ACCESS"
           /\ ~procs[p].revoked

----------------------------------------------------------------------------
(* setupTwoFactor and enableTwoFactor of one user, two requests in flight   *)

MaxEnrollRequests == 3

InitEnroll ==
    /\ now = 0
    /\ users = [u \in UserIds |-> NewUser("pw0")]
    /\ tokens = {}
    /\ devices = {}
    /\ procs = [p \in ProcIds |-> Idle]
    /\ hist = NoHistory(MaxEnrollRequests)

NextEnroll ==
    \/ \E p \in ProcIds : Return(p)
    \/ \E p \in ProcIds, uid \in UserIds, secret \in Secrets :
         setupTwoFactor(p, uid, secret, BackupCodes)
    \/ \E p \in ProcIds : setupTwoFactorUpdate(p)
    \/ \E p \in ProcIds, uid \in UserIds, token \in TokenInputs : enableTwoFactor(p, uid, token)
    \/ \E p \in ProcIds : enableTwoFactorUpdate(p)

SpecEnroll == InitEnroll /\ [][NextEnroll]_vars

(* C25: whenever twoFactorEnabled is true, twoFactorSecret is set and is    *)
(* the secret against which the enabling TOTP code was verified, also when  *)
(* setupTwoFactor and enableTwoFactor of the user run interleaved.          *)
C25_EnabledWithVerifiedSecret ==
    \A uid \in UserIds :
        users[uid].twoFactorEnabled =>
            /\ users[uid].twoFactorSecret # NoSecret
            /\ users[uid].twoFactorSecret = hist.enabledWith

(* C26: when verifyBackupCode calls of one user with different valid codes  *)
(* run interleaved, the code of every call that returned true is absent     *)
(* from the stored list afterwards.                                         *)
C26_RedeemedCodeStaysAbsent ==
    \A p \in Live(ProcIds) :
        /\ procs[p].pc = "done" /\ procs[p].op = "verifyBackupCode"
        /\ procs[p].res = "true"
        => procs[p].code \notin Range(users[procs[p].uid].twoFactorBackupCodes)

(* C27: refreshAuth changes only the session being refreshed: no step of a  *)
(* refresh touches the Token row of another device of the user, also when   *)
(* the user holds the maximum number of sessions.                           *)
C27_RefreshKeepsOtherSessions ==
    [][\A p \in Live(ProcIds) :
          procs[p].op = "refresh2" /\ procs'[p] # procs[p] =>
            \A r \in tokens : r.token # procs[p].token => r \in tokens']_vars

(* C28: with the device limit enforced by rejection, a user who has 3       *)
(* registered devices can still log in from a deviceId already registered:  *)
(* only a login from a new device is answered `Device limit reached', and   *)
(* the Device rows of a user never exceed 3.                                *)
C28_CapRejectsOnlyNewDevices ==
    /\ \A uid \in UserIds : Cardinality(DevicesOf(uid)) <= MAX_DEVICES_LOGIN
    /\ \A p \in Live(ProcIds) :
          /\ procs[p].pc = "done" /\ procs[p].op = "login2"
          /\ procs[p].res = "DeviceLimit"
          => procs[p].deviceId \notin {d.deviceId : d \in DevicesOf(procs[p].uid)}

(* C29: isPasswordExpired and getPasswordExpiryInfo.isExpired give the same *)
(* answer for every user and time: true exactly when now is later than      *)
(* passwordChangedAt + 90 days, false when passwordChangedAt is unset.      *)
C29_ExpiryAnswersAgree ==
    \A p \in Live(ProcIds) :
        procs[p].pc = "done" /\ procs[p].op = "getPasswordExpiryInfo" =>
            ((procs[p].res = "true") <=> passwordExpired(procs[p].user.passwordChangedAt, procs[p].at))

============================================================================
